---- MODULE Spec2Model ----
(***************************************************************************)
(* A model of the constrained regression engine of ALM: the classification *)
(* of force-constant parameters into fixed / free / dependent ones         *)
(* (constraint.h), the expansion of a reduced parameter vector             *)
(* (Optimize::recover_original_forceconstants), the projection of a design *)
(* matrix row through the constraints, the validation of the optimizer     *)
(* control, the driver Optimize::optimize_main and the coordinate descent  *)
(* of the elastic net (optimize.cpp).                                      *)
(*                                                                         *)
(* Real numbers are modelled exactly: force constants, matrix entries and  *)
(* constraint coefficients are integers; the optimizer control is in       *)
(* fixed point (Unit ticks to 1.0).  Parameter indices are 0-based as in   *)
(* the source; interaction orders are 1..maxorder (order i of the model is *)
(* order i-1 of the source).                                               *)
(***************************************************************************)
EXTENDS Integers, Sequences, FiniteSets, TLC

VARIABLES
    pc,              \* position of the driver: which call was made last
    maxorder,        \* number of interaction orders
    nequiv,          \* nequiv[o]: number of parameters of order o (fcs->get_nequiv()[o].size())
    const_symmetry,  \* Constraint::const_symmetry: the reduced constraint rows per order
    const_fix,       \* Constraint::const_fix: sequence of ConstraintTypeFix per order
    const_relate,    \* Constraint::const_relate: sequence of ConstraintTypeRelate per order
    index_bimap,     \* Constraint::index_bimap: sequence of (left = free index, right = original index)
    cmp,             \* rows handed to operator< and operator==, and what the operators returned
    param_in,        \* the reduced (free) parameter vector handed to the expansion
    params,          \* Optimize::params: the full parameter array
    amat_orig_tmp,   \* one row of the per-thread scratch matrix in the original columns
    f_multi,         \* the force component of that row
    amat,            \* the row as written to the design matrix
    bvec,            \* the entry as written to the target vector
    optcontrol_in,   \* the argument of the last set_optimizer_control call
    optcontrol,      \* Optimize::optcontrol
    INFO,            \* the status the dense solver (dgelss_) reported
    info_fitting,    \* the status optimize_main returns
    l1_alpha_path,   \* the penalties the cross-validation loop visited (first, last)
    with_sparse_solver,   \* the build defines WITH_SPARSE_SOLVER
    constraint_algebraic, \* constraint->get_constraint_algebraic()
    calls,           \* the assemblers and solvers optimize_main has called, in order
    fcs_tmp,         \* optimize_main: the vector handed to the solver as param_out
    omp,             \* a parallel region: its shared buffers and the position of each thread
    fit,             \* the arguments and locals of the running dense solver routine (fit_*)
    gam,             \* Optimize::gamma: its arguments, its locals at the return, and the value returned
    use_sparseQR,    \* Fitting::use_sparseQR
    data,            \* the data window: nstart, nend, skip_s, skip_e, ndata_used, u_in, f_in and the locals of a run
    cd               \* coordinate_descent: its arguments and locals, by their names

cvars == <<maxorder, nequiv, const_symmetry, const_fix, const_relate, index_bimap, cmp>>
avars == <<amat_orig_tmp, f_multi, amat, bvec, omp>>
xvars == <<fit, gam, use_sparseQR, data>>
svars == <<with_sparse_solver, constraint_algebraic, calls, fcs_tmp, xvars>>
ovars == <<optcontrol_in, optcontrol, INFO, info_fitting, l1_alpha_path, svars>>
vars == <<pc, cvars, param_in, params, avars, ovars, cd>>

----------------------------------------------------------------------------
(* Bounds of the model *)

MaxOrder == 2

MaxParams == 4

\* parameters in total in the runs of the optimization driver
MaxFitParams == 3

\* coefficients of a coordinate-descent solve
MaxCoef == 2

\* the largest maxnum_iteration
MaxIter == 2

\* solves along one penalty path
MaxSolves == 2

\* the largest num_l1_alpha of a penalty grid
MaxGrid == 2

\* threads of a parallel region
MaxThreads == 2

\* work items (rows irow) of a parallel region
MaxCycle == 2

\* columns of the design matrix in a parallel region
MaxCols == 2

\* terms of a logged sum
MaxTerms == 4

\* elements of a sparse constraint row handed to the comparison operators
MaxRowLen == 2

\* rows of the matrix handed to a dense solver routine
MaxFitRows == 2

\* length of an index tuple over three indices handed to gamma
MaxTupleLen == 3

\* length of an index tuple of (nearly) equal indices handed to gamma
MaxLongTupleLen == 13

(* Value domains of the inputs *)
Coefs == {-1, 1}          \* nonzero coefficients of a reduced constraint row
FixVals == {0, 2}         \* right-hand sides of single-term rows (0, or an injected value)
ParamVals == {-1, 3}      \* values of free parameters
AVals == {1, 2}           \* entries of a design-matrix row in the original columns
FVals == {0, 5}            \* force components

(* Real-valued options are counted in ticks of 1/One: eps is the threshold *)
(* the code compares l1_ratio with, One is 1.0.                             *)
eps == 1
One == 3
OptimizerVals == {1, 2, 3}        \* 1: least squares, 2: elastic net, 3: neither
ModeVals == {-1, 0, 1, 2}         \* cross_validation_mode
RatioVals == {0, 1, 2, 3, 4}      \* l1_ratio: 0, eps, between eps and 1, 1, above 1
AlphaVals == {1, 2}               \* l1_alpha_min, l1_alpha_max
SolverInfos == {0, 1}             \* dgelss_ INFO: 0 on success
StandardColumns == {<<1, -1>>, <<-1, 1>>}   \* columns of mean 0 and variance 1
RawColumns == {<<1, 1>>, <<2, 2>>}          \* columns of a matrix that is not standardized
ForceColumns == {<<0, 5>>, <<5, 5>>}        \* target vectors b
L1AlphaVals == {0, 3, 6}          \* the penalty alpha of one solve
SolveRatioVals == {2, 3}          \* l1_ratio of an accepted elastic-net configuration
ToleranceVals == {0, 3}           \* tolerance_iteration
FrequencyVals == {0, 2}           \* output_frequency
VerbosityVals == {0, 1}           \* verbosity
TermVals == {1, 7}                \* |beta(i)| and bvec_orig[i]^2, in units of the last place

----------------------------------------------------------------------------
(* Helpers on sequences and index sets *)

Range(s) == {s[i] : i \in DOMAIN s}

RECURSIVE SumSeq(_)
SumSeq(s) == IF Len(s) = 0 THEN 0 ELSE s[1] + SumSeq(Tail(s))

\* the elements of a finite set of integers, in ascending order
RECURSIVE Ascending(_)
Ascending(S) ==
    IF S = {} THEN <<>>
    ELSE LET m == CHOOSE x \in S : \A y \in S : x <= y
         IN <<m>> \o Ascending(S \ {m})

\* the elements of a finite set of integers, in descending order
RECURSIVE Descending(_)
Descending(S) ==
    IF S = {} THEN <<>>
    ELSE LET m == CHOOSE x \in S : \A y \in S : x >= y
         IN <<m>> \o Descending(S \ {m})

Orders == 1..maxorder

\* number of parameters in the orders before o (ishift of the source)
RECURSIVE Shift(_, _)
Shift(sizes, o) == IF o <= 1 THEN 0 ELSE sizes[o - 1] + Shift(sizes, o - 1)

NTotal == Shift(nequiv, maxorder + 1)

\* the vectors of per-order parameter counts: every order has at least one
\* parameter and there are at most MaxParams parameters in total
RECURSIVE SizeVectors(_, _)
SizeVectors(k, budget) ==
    IF k = 0 THEN {<<>>}
    ELSE UNION {{<<n>> \o v : v \in SizeVectors(k - 1, budget - n)} :
                n \in 1..(budget - (k - 1))}

----------------------------------------------------------------------------
(* The reduced constraint set (ConstraintSparseForm in reduced row-echelon  *)
(* form): one row per pivot column, the pivot is the leading entry with     *)
(* coefficient 1, and a pivot column occurs in no other row.  A row is a    *)
(* sequence of (col, val) elements in ascending column order, as in         *)
(* ConstraintDoubleElement, with its right-hand side.                       *)

ConstraintDoubleElement(c, v) == [col |-> c, val |-> v]

\* the row with pivot p and the sparse non-pivot part rest (a function from
\* columns to nonzero coefficients)
ReducedRow(p, rest, rhs) ==
    [elems |-> <<ConstraintDoubleElement(p, 1)>> \o
               [j \in 1..Cardinality(DOMAIN rest) |->
                   LET c == Ascending(DOMAIN rest)[j]
                   IN ConstraintDoubleElement(c, rest[c])],
     rhs |-> rhs]

\* all reduced row-echelon systems over the columns 0..n-1, rows in
\* ascending pivot order
ReducedConstraintSets(n) ==
    UNION { LET nonpiv == (0..(n - 1)) \ P
                sparse == UNION {[D -> Coefs] : D \in SUBSET nonpiv}
                parts  == {f \in [P -> sparse] :
                              \A p \in P : \A q \in DOMAIN f[p] : q > p}
            IN UNION { { [k \in 1..Cardinality(P) |->
                            LET p == Ascending(P)[k]
                            IN ReducedRow(p, f[p],
                                          IF DOMAIN f[p] = {} THEN r[p] ELSE 0)]
                         : r \in [P -> FixVals] }
                       : f \in parts }
          : P \in SUBSET (0..(n - 1)) }

\* one reduced constraint set per order
RECURSIVE ConstraintVectors(_)
ConstraintVectors(sizes) ==
    IF Len(sizes) = 0 THEN {<<>>}
    ELSE LET rest == ConstraintVectors(Tail(sizes))
         IN UNION {{<<c>> \o v : v \in rest} : c \in ReducedConstraintSets(Head(sizes))}

----------------------------------------------------------------------------
(* ConstraintRowReducer: operator< and operator== on sparse rows            *)
(* (constraint.h).  A double value is counted in units of the tolerance     *)
(* 1.0e-10 of operator==.                                                   *)

RowTol == 1

RowCols == 0..2
RowVals == {1, 2, 3}

\* the sparse rows of at most n elements: ascending columns, nonzero values
SparseRows(n) ==
    UNION {{[k \in 1..Cardinality(D) |-> ConstraintDoubleElement(Ascending(D)[k], f[Ascending(D)[k]])] :
               f \in [D -> RowVals]} :
           D \in {D \in SUBSET RowCols : Cardinality(D) >= 1 /\ Cardinality(D) <= n}}

MinOf(a, b) == IF a < b THEN a ELSE b

\* std::abs
AbsOf(x) == IF x < 0 THEN -x ELSE x

\* (mutant of RowLess) after an equal common part the shorter row precedes
RECURSIVE RowLessByLength(_, _, _)
RowLessByLength(obj1, obj2, i) ==
    IF i > MinOf(Len(obj1), Len(obj2)) THEN Len(obj1) < Len(obj2)
    ELSE IF obj1[i].col < obj2[i].col THEN TRUE
    ELSE IF obj1[i].col > obj2[i].col THEN FALSE
    ELSE IF obj1[i].val < obj2[i].val THEN TRUE
    ELSE IF obj1[i].val > obj2[i].val THEN FALSE
    ELSE RowLessByLength(obj1, obj2, i + 1)

\* operator< of both element types: the loop from element i on
RECURSIVE RowLess(_, _, _)
RowLess(obj1, obj2, i) ==
    IF i > MinOf(Len(obj1), Len(obj2)) THEN FALSE
    ELSE IF obj1[i].col < obj2[i].col THEN TRUE
    ELSE IF obj1[i].col > obj2[i].col THEN FALSE
    ELSE IF obj1[i].val < obj2[i].val THEN TRUE
    ELSE IF obj1[i].val > obj2[i].val THEN FALSE
    ELSE RowLess(obj1, obj2, i + 1)

\* operator== of rows of ConstraintIntegerElement
IntegerRowEqual(obj1, obj2) ==
    /\ Len(obj1) = Len(obj2)
    /\ \A i \in 1..Len(obj1) : ~(obj1[i].col # obj2[i].col \/ obj1[i].val # obj2[i].val)

\* operator== of rows of ConstraintDoubleElement
DoubleRowEqual(obj1, obj2) ==
    /\ Len(obj1) = Len(obj2)
    /\ \A i \in 1..Len(obj1) :
          ~(obj1[i].col # obj2[i].col \/ AbsOf(obj1[i].val - obj2[i].val) > RowTol)

----------------------------------------------------------------------------
(* FreeParameterClassifier: Constraint::get_mapping_constraint.             *)

ConstraintTypeFix(index_in, val_in) ==
    [p_index_target |-> index_in, val_to_fix |-> val_in]

ConstraintTypeRelate(index_in, alpha_in, p_index_in) ==
    [p_index_target |-> index_in, alpha |-> alpha_in, p_index_orig |-> p_index_in]

Reverse(s) == [j \in 1..Len(s) |-> s[Len(s) + 1 - j]]

\* a pivot row with a single nonzero coefficient pins its parameter
FixEntries(rows) ==
    LET single == SelectSeq(Reverse(rows), LAMBDA r : Len(r.elems) = 1)
    IN [j \in 1..Len(single) |->
           ConstraintTypeFix(single[j].elems[1].col, single[j].rhs)]

\* any other pivot row makes its pivot column a dependent parameter
RelateEntries(rows) ==
    LET multi == SelectSeq(Reverse(rows), LAMBDA r : Len(r.elems) > 1)
    IN [j \in 1..Len(multi) |->
           ConstraintTypeRelate(multi[j].elems[1].col,
                                [k \in 1..(Len(multi[j].elems) - 1) |-> multi[j].elems[k + 1].val],
                                [k \in 1..(Len(multi[j].elems) - 1) |-> multi[j].elems[k + 1].col])]

\* (mutant) only the pinned columns are taken out of the free numbering
FreeIndexMapFixedOnly(n, fix, relate) ==
    LET has_constraint == {fix[j].p_index_target : j \in DOMAIN fix}
        free == Ascending((0..(n - 1)) \ has_constraint)
    IN [j \in 1..Len(free) |-> [left |-> j - 1, right |-> free[j]]]

\* all columns that are neither pinned nor dependent are free and get
\* contiguous free indices in ascending order of the original index
FreeIndexMap(n, fix, relate) ==
    LET has_constraint == {fix[j].p_index_target : j \in DOMAIN fix}
                          \cup {relate[j].p_index_target : j \in DOMAIN relate}
        free == Ascending((0..(n - 1)) \ has_constraint)
    IN [j \in 1..Len(free) |-> [left |-> j - 1, right |-> free[j]]]

----------------------------------------------------------------------------
(* ParameterExpander: Optimize::recover_original_forceconstants.            *)

RECURSIVE FixLoop(_, _, _, _)
FixLoop(out, fix, j, ishift) ==
    IF j > Len(fix) THEN out
    ELSE FixLoop([out EXCEPT ![fix[j].p_index_target + ishift] = fix[j].val_to_fix],
                 fix, j + 1, ishift)

\* (mutant) the free offset iparam of the order is forgotten
RECURSIVE BimapLoopNoOffset(_, _, _, _, _, _)
BimapLoopNoOffset(out, bimap, j, pin, ishift, iparam) ==
    IF j > Len(bimap) THEN out
    ELSE BimapLoopNoOffset([out EXCEPT ![bimap[j].right + ishift] = pin[bimap[j].left]],
                           bimap, j + 1, pin, ishift, iparam)

RECURSIVE BimapLoop(_, _, _, _, _, _)
BimapLoop(out, bimap, j, pin, ishift, iparam) ==
    IF j > Len(bimap) THEN out
    ELSE LET inew == bimap[j].left + iparam
             iold == bimap[j].right + ishift
         IN BimapLoop([out EXCEPT ![iold] = pin[inew]],
                      bimap, j + 1, pin, ishift, iparam)

RECURSIVE AlphaLoop(_, _, _, _, _)
AlphaLoop(tmp, rel, k, out, ishift) ==
    IF k > Len(rel.alpha) THEN tmp
    ELSE AlphaLoop(tmp + rel.alpha[k] * out[rel.p_index_orig[k] + ishift],
                   rel, k + 1, out, ishift)

\* (mutant) the weighted sum is stored without the negation
RelateValueNotNegated(rel, out, ishift) == AlphaLoop(0, rel, 1, out, ishift)

RelateValue(rel, out, ishift) == -AlphaLoop(0, rel, 1, out, ishift)

RECURSIVE RelateLoop(_, _, _, _)
RelateLoop(out, relate, j, ishift) ==
    IF j > Len(relate) THEN out
    ELSE RelateLoop([out EXCEPT ![relate[j].p_index_target + ishift]
                                    = RelateValue(relate[j], out, ishift)],
                    relate, j + 1, ishift)

\* (mutant) the dependent entries are computed before the free ones are copied
RecoverOrderRelateFirst(out, pin, fix, bimap, relate, ishift, iparam) ==
    BimapLoop(RelateLoop(FixLoop(out, fix, 1, ishift), relate, 1, ishift),
              bimap, 1, pin, ishift, iparam)

\* the body of the loop over the orders: fixed, then free, then dependent
RecoverOrder(out, pin, fix, bimap, relate, ishift, iparam) ==
    RelateLoop(BimapLoop(FixLoop(out, fix, 1, ishift),
                         bimap, 1, pin, ishift, iparam),
               relate, 1, ishift)

RECURSIVE OrderLoop(_, _, _, _, _, _, _, _, _, _)
OrderLoop(out, i, ishift, iparam, mo, pin, sizes, fix, relate, bimap) ==
    IF i > mo THEN out
    ELSE OrderLoop(RecoverOrder(out, pin, fix[i], bimap[i], relate[i], ishift, iparam),
                   i + 1, ishift + sizes[i], iparam + Len(bimap[i]),
                   mo, pin, sizes, fix, relate, bimap)

recover_original_forceconstants(mo, pin, sizes, fix, relate, bimap) ==
    LET nparams == Shift(sizes, mo + 1)
    IN OrderLoop([p \in 0..(nparams - 1) |-> 0], 1, 0, 0,
                 mo, pin, sizes, fix, relate, bimap)

\* number of free parameters (Nirred / N_new of the source)
Nirred == SumSeq([o \in 1..maxorder |-> Len(index_bimap[o])])

----------------------------------------------------------------------------
(* DesignMatrixAssembler, for one row (one k of one irow):                  *)
(* Optimize::get_matrix_elements writes the row in the original columns,    *)
(* Optimize::get_matrix_elements_algebraic_constraint projects it.          *)

\* full mode: amat[...] = amat_orig_tmp[i][j], bvec[im] = f_multi[irow][...]
FullModeRow(orig, f) == [amat |-> orig, bvec |-> f]

\* (mutant) the fixed contribution is added to the target instead of subtracted
RECURSIVE ProjectFixLoopAdded(_, _, _, _, _)
ProjectFixLoopAdded(b, fix, i, orig, ishift) ==
    IF i > Len(fix) THEN b
    ELSE ProjectFixLoopAdded(b + fix[i].val_to_fix * orig[ishift + fix[i].p_index_target],
                             fix, i + 1, orig, ishift)

RECURSIVE ProjectFixLoop(_, _, _, _, _)
ProjectFixLoop(b, fix, i, orig, ishift) ==
    IF i > Len(fix) THEN b
    ELSE ProjectFixLoop(b - fix[i].val_to_fix * orig[ishift + fix[i].p_index_target],
                        fix, i + 1, orig, ishift)

RECURSIVE ProjectBimapLoop(_, _, _, _, _, _)
ProjectBimapLoop(mod, bimap, j, orig, ishift, iparam) ==
    IF j > Len(bimap) THEN mod
    ELSE LET inew == bimap[j].left + iparam
             iold == bimap[j].right + ishift
         IN ProjectBimapLoop([mod EXCEPT ![inew] = orig[iold]],
                             bimap, j + 1, orig, ishift, iparam)

\* index_bimap.right.at(q): the free index of the original index q
RightAt(bimap, q) == bimap[CHOOSE j \in DOMAIN bimap : bimap[j].right = q].left

RECURSIVE ProjectAlphaLoop(_, _, _, _, _, _, _)
ProjectAlphaLoop(mod, rel, j, bimap, orig, ishift, iparam) ==
    IF j > Len(rel.alpha) THEN mod
    ELSE LET iold == rel.p_index_target + ishift
             inew == RightAt(bimap, rel.p_index_orig[j]) + iparam
         IN ProjectAlphaLoop([mod EXCEPT ![inew] = mod[inew] - orig[iold] * rel.alpha[j]],
                             rel, j + 1, bimap, orig, ishift, iparam)

RECURSIVE ProjectRelateLoop(_, _, _, _, _, _, _)
ProjectRelateLoop(mod, relate, i, bimap, orig, ishift, iparam) ==
    IF i > Len(relate) THEN mod
    ELSE ProjectRelateLoop(ProjectAlphaLoop(mod, relate[i], 1, bimap, orig, ishift, iparam),
                           relate, i + 1, bimap, orig, ishift, iparam)

RECURSIVE ProjectOrderLoop(_, _, _, _, _, _, _, _, _, _, _)
ProjectOrderLoop(mod, b, order, ishift, iparam, mo, orig, sizes, fix, relate, bimap) ==
    IF order > mo THEN [amat |-> mod, bvec |-> b]
    ELSE ProjectOrderLoop(
             ProjectRelateLoop(ProjectBimapLoop(mod, bimap[order], 1, orig, ishift, iparam),
                               relate[order], 1, bimap[order], orig, ishift, iparam),
             ProjectFixLoop(b, fix[order], 1, orig, ishift),
             order + 1, ishift + sizes[order], iparam + Len(bimap[order]),
             mo, orig, sizes, fix, relate, bimap)

\* projected mode: the row in the free columns and the shifted target entry
ProjectedModeRow(orig, f, mo, sizes, fix, relate, bimap) ==
    LET ncols_new == SumSeq([o \in 1..mo |-> Len(bimap[o])])
    IN ProjectOrderLoop([j \in 0..(ncols_new - 1) |-> 0], f, 1, 0, 0,
                        mo, orig, sizes, fix, relate, bimap)

----------------------------------------------------------------------------
(* The driver *)

\* the default-constructed OptimizerControl; no modelled step reads it
DefaultControl ==
    [optimizer |-> 0, cross_validation_mode |-> 0, l1_ratio |-> 0,
     l1_alpha_min |-> 0, l1_alpha_max |-> 0, standardize |-> 0,
     maxnum_iteration |-> 0, tolerance_iteration |-> 0, output_frequency |-> 0,
     num_l1_alpha |-> 1, use_sparse_solver |-> 0]

InitWith(budget) ==
    /\ pc = "setup"
    /\ maxorder \in 1..MaxOrder
    /\ nequiv \in SizeVectors(maxorder, budget)
    /\ const_symmetry \in ConstraintVectors(nequiv)
    /\ const_fix = [o \in 1..maxorder |-> <<>>]
    /\ const_relate = [o \in 1..maxorder |-> <<>>]
    /\ index_bimap = [o \in 1..maxorder |-> <<>>]
    /\ cmp = <<>>
    /\ data = <<>>
    /\ use_sparseQR = <<>>
    /\ gam = <<>>
    /\ fit = <<>>
    /\ param_in = <<>>
    /\ params = <<>>
    /\ amat_orig_tmp = <<>>
    /\ f_multi = 0
    /\ amat = <<>>
    /\ bvec = 0
    /\ optcontrol_in = DefaultControl
    /\ optcontrol = DefaultControl
    /\ INFO = 0
    /\ info_fitting = 0
    /\ l1_alpha_path = <<>>
    /\ calls = <<>>
    /\ fcs_tmp = <<>>
    /\ omp = <<>>
    /\ cd = <<>>

Init ==
    /\ InitWith(MaxParams)
    /\ with_sparse_solver = FALSE
    /\ constraint_algebraic = TRUE

\* Constraint::setup calls get_mapping_constraint once for all orders
GetMappingConstraint ==
    /\ pc = "setup"
    /\ const_fix' = [o \in Orders |-> FixEntries(const_symmetry[o])]
    /\ const_relate' = [o \in Orders |-> RelateEntries(const_symmetry[o])]
    /\ index_bimap' = [o \in Orders |->
                          FreeIndexMap(nequiv[o], FixEntries(const_symmetry[o]),
                                       RelateEntries(const_symmetry[o]))]
    /\ pc' = "ready"
    /\ UNCHANGED <<maxorder, nequiv, const_symmetry, cmp, param_in, params, avars, ovars, cd>>

\* Optimize::set_fcs_values: expand an irreducible set of force constants
SetFcsValues ==
    /\ pc \in {"ready", "expanded"}
    /\ \E fc_in \in [0..(Nirred - 1) -> ParamVals] :
          /\ param_in' = fc_in
          /\ params' = recover_original_forceconstants(maxorder, fc_in, nequiv,
                                                       const_fix, const_relate, index_bimap)
    /\ pc' = "expanded"
    /\ UNCHANGED <<cvars, avars, ovars, cd>>

Next ==
    \/ GetMappingConstraint
    \/ SetFcsValues

Spec == Init /\ [][Next]_vars

\* Optimize::get_matrix_elements, for one row of the data
GetMatrixElements ==
    /\ pc = "ready"
    /\ \E orig \in [0..(NTotal - 1) -> AVals], f \in FVals :
          /\ amat_orig_tmp' = orig
          /\ f_multi' = f
          /\ amat' = FullModeRow(orig, f).amat
          /\ bvec' = FullModeRow(orig, f).bvec
    /\ pc' = "full"
    /\ UNCHANGED <<cvars, param_in, params, ovars, omp, cd>>

\* Optimize::get_matrix_elements_algebraic_constraint, for one row of the data
GetMatrixElementsAlgebraicConstraint ==
    /\ pc = "ready"
    /\ \E orig \in [0..(NTotal - 1) -> AVals], f \in FVals :
          LET row == ProjectedModeRow(orig, f, maxorder, nequiv,
                                      const_fix, const_relate, index_bimap)
          IN /\ amat_orig_tmp' = orig
             /\ f_multi' = f
             /\ amat' = row.amat
             /\ bvec' = row.bvec
    /\ pc' = "projected"
    /\ UNCHANGED <<cvars, param_in, params, ovars, omp, cd>>

NextAssemble ==
    \/ GetMappingConstraint
    \/ GetMatrixElements
    \/ GetMatrixElementsAlgebraicConstraint

SpecAssemble == Init /\ [][NextAssemble]_vars

----------------------------------------------------------------------------
(* OptimizerControl validation and the optimization driver *)

\* the sparse-solver toggle is set for the least-squares family, the only one
\* that reads it, with one choice of the elastic-net fields it does not read
ControlInputs ==
    LET all == {[DefaultControl EXCEPT !.optimizer = o, !.cross_validation_mode = m,
                                       !.l1_ratio = r, !.l1_alpha_min = lo, !.l1_alpha_max = hi,
                                       !.use_sparse_solver = sp] :
                   o \in OptimizerVals, m \in ModeVals, r \in RatioVals, lo \in AlphaVals,
                   hi \in AlphaVals, sp \in {0, 1}}
    IN {c \in all : c.use_sparse_solver # 0 =>
                        (c.optimizer = 1 /\ c.l1_ratio = 0 /\ c.l1_alpha_min = c.l1_alpha_max)}

\* (mutant) the mode check lets the value 2 through
ModeRejectedUpToTwo(c) == c.cross_validation_mode < 0 \/ c.cross_validation_mode > 2

\* the conditions under which set_optimizer_control calls exit()
ModeRejected(c) == c.cross_validation_mode < 0 \/ c.cross_validation_mode > 1

\* (mutant) the ratio check compares with 0 instead of eps
RatioRejectedAtZero(c) == c.optimizer = 2 /\ (c.l1_ratio <= 0 \/ c.l1_ratio > One)

RatioRejected(c) == c.optimizer = 2 /\ (c.l1_ratio <= eps \/ c.l1_ratio > One)

\* (mutant) the bounds check accepts equal bounds
BoundsRejectedStrict(c) ==
    c.optimizer = 2 /\ c.cross_validation_mode = 1 /\ c.l1_alpha_min > c.l1_alpha_max

BoundsRejected(c) ==
    c.optimizer = 2 /\ c.cross_validation_mode = 1 /\ c.l1_alpha_min >= c.l1_alpha_max

\* Optimize::set_optimizer_control: exit() ends the program, otherwise the
\* argument is copied to optcontrol
SetOptimizerControl ==
    /\ pc = "ready"
    /\ \E c \in ControlInputs :
          /\ optcontrol_in' = c
          /\ IF ModeRejected(c) \/ RatioRejected(c) \/ BoundsRejected(c)
             THEN pc' = "fatal" /\ optcontrol' = optcontrol
             ELSE pc' = "stored" /\ optcontrol' = c
    /\ UNCHANGED <<cvars, param_in, params, avars, INFO, info_fitting, l1_alpha_path, svars, cd>>

\* what the solvers return for the unmodelled data: v, 2v, 3v, ...
SolverOutput(n, v) == [i \in 0..(n - 1) |-> v * (i + 1)]

Zeros(n) == [i \in 0..(n - 1) |-> 0]

\* Optimize::fit_algebraic_constraints: the expansion runs only when INFO is 0
fit_algebraic_constraints(N_new, param_out, info, v) ==
    IF info = 0
    THEN [info_fitting |-> info, param_tmp |-> SolverOutput(N_new, v),
          param_out |-> recover_original_forceconstants(maxorder, SolverOutput(N_new, v), nequiv,
                                                        const_fix, const_relate, index_bimap)]
    ELSE [info_fitting |-> info, param_tmp |-> <<>>, param_out |-> param_out]

\* Optimize::fit_without_constraints, fit_with_constraints: the solution is
\* copied to param_out whatever INFO is
fit_without_constraints(N, param_out, info, v) ==
    [info_fitting |-> info, param_tmp |-> <<>>, param_out |-> SolverOutput(N, v)]

\* (mutant) the expansion runs whatever the factorization reported
run_eigen_sparseQR_expanding(N_new, param_out, info, v) ==
    [info_fitting |-> IF info = 0 THEN 0 ELSE 1, param_tmp |-> SolverOutput(N_new, v),
     param_out |-> recover_original_forceconstants(maxorder, SolverOutput(N_new, v), nequiv,
                                                   const_fix, const_relate, index_bimap)]

\* Optimize::run_eigen_sparseQR: info is ldlt.info(), 0 is Eigen::Success; the
\* solution is expanded into param_out only after a successful factorization
run_eigen_sparseQR(N_new, param_out, info, v) ==
    IF info = 0
    THEN [info_fitting |-> 0, param_tmp |-> SolverOutput(N_new, v),
          param_out |-> recover_original_forceconstants(maxorder, SolverOutput(N_new, v), nequiv,
                                                        const_fix, const_relate, index_bimap)]
    ELSE [info_fitting |-> 1, param_tmp |-> SolverOutput(N_new, v), param_out |-> param_out]

\* the result of a call that ended the program in exit()
Exited(param_out) ==
    [info_fitting |-> 0, param_tmp |-> <<>>, param_out |-> param_out, calls |-> <<>>,
     fatal |-> TRUE]

\* (mutant) without sparse support the dense solver is used instead
least_squares_fallback(N, N_new, algebraic, param_out, info, v) ==
    IF algebraic
    THEN IF optcontrol.use_sparse_solver # 0 /\ with_sparse_solver
         THEN run_eigen_sparseQR(N_new, param_out, info, v)
                  @@ [calls |-> <<"get_matrix_elements_in_sparse_form", "run_eigen_sparseQR">>,
                      fatal |-> FALSE]
         ELSE fit_algebraic_constraints(N_new, param_out, info, v)
                  @@ [calls |-> <<"get_matrix_elements_algebraic_constraint",
                                  "fit_algebraic_constraints">>,
                      fatal |-> FALSE]
    ELSE fit_without_constraints(N, param_out, info, v)
             @@ [calls |-> <<"get_matrix_elements", "fit_without_constraints">>, fatal |-> FALSE]

\* Optimize::least_squares
least_squares(N, N_new, algebraic, param_out, info, v) ==
    IF algebraic
    THEN IF optcontrol.use_sparse_solver # 0
         THEN IF with_sparse_solver
              THEN run_eigen_sparseQR(N_new, param_out, info, v)
                       @@ [calls |-> <<"get_matrix_elements_in_sparse_form",
                                       "run_eigen_sparseQR">>,
                           fatal |-> FALSE]
              ELSE Exited(param_out)
         ELSE fit_algebraic_constraints(N_new, param_out, info, v)
                  @@ [calls |-> <<"get_matrix_elements_algebraic_constraint",
                                  "fit_algebraic_constraints">>,
                      fatal |-> FALSE]
    ELSE fit_without_constraints(N, param_out, info, v)
             @@ [calls |-> <<"get_matrix_elements", "fit_without_constraints">>, fatal |-> FALSE]

\* Optimize::run_elastic_net_crossvalidation: walks the penalties from
\* l1_alpha_max (ialpha = 0) to l1_alpha_min (ialpha = num_l1_alpha), never
\* writes param_out, and returns 1
run_elastic_net_crossvalidation(param_out) ==
    [info_fitting |-> 1, param_out |-> param_out,
     path |-> <<optcontrol.l1_alpha_max, optcontrol.l1_alpha_min>>]

\* Optimize::run_elastic_net_optimization: one penalty, returns 0
run_elastic_net_optimization(N_new, v) ==
    [info_fitting |-> 0, param_out |-> SolverOutput(N_new, v), path |-> <<>>]

\* (mutant) the expansion is skipped and the free vector is returned as it is
elastic_net_unexpanded(N_new, v) ==
    LET r == IF optcontrol.cross_validation_mode > 0
             THEN run_elastic_net_crossvalidation(Zeros(N_new))
             ELSE run_elastic_net_optimization(N_new, v)
    IN [info_fitting |-> r.info_fitting, param_tmp |-> r.param_out, path |-> r.path,
        param_out |-> r.param_out]

\* Optimize::elastic_net, with displacement_scaling_factor 1
elastic_net(N_new, v) ==
    LET r == IF optcontrol.cross_validation_mode > 0
             THEN run_elastic_net_crossvalidation(Zeros(N_new))
             ELSE run_elastic_net_optimization(N_new, v)
    IN [info_fitting |-> r.info_fitting, param_tmp |-> r.param_out, path |-> r.path,
        param_out |-> recover_original_forceconstants(maxorder, r.param_out, nequiv,
                                                      const_fix, const_relate, index_bimap)]

\* Optimize::optimize_main; the elastic net is run with algebraic constraints
\* only.  A run that ends in exit() leaves no result behind.
OptimizeMain ==
    /\ pc = "stored"
    /\ optcontrol.optimizer = 2 => constraint_algebraic
    /\ \E info \in SolverInfos, v \in ParamVals :
          /\ optcontrol.optimizer # 1 => info = 0
          /\ LET algebraic == constraint_algebraic
                 N == NTotal
                 N_new == IF algebraic THEN Nirred ELSE 0
                 r == IF optcontrol.optimizer = 1
                      THEN least_squares(N, N_new, algebraic, Zeros(N), info, v) @@ [path |-> <<>>]
                      ELSE IF optcontrol.optimizer = 2
                      THEN elastic_net(N_new, v) @@ [calls |-> <<"elastic_net">>, fatal |-> FALSE]
                      ELSE [info_fitting |-> 0, param_tmp |-> <<>>, param_out |-> Zeros(N),
                            path |-> <<>>, calls |-> <<>>, fatal |-> FALSE]
             IN IF r.fatal
                THEN /\ pc' = "exited"
                     /\ UNCHANGED <<INFO, info_fitting, param_in, l1_alpha_path, params, calls,
                                    fcs_tmp>>
                ELSE /\ pc' = "returned"
                     /\ INFO' = info
                     /\ info_fitting' = r.info_fitting
                     /\ param_in' = r.param_tmp
                     /\ l1_alpha_path' = r.path
                     /\ calls' = r.calls
                     /\ fcs_tmp' = r.param_out
                     /\ params' = IF r.info_fitting = 0 THEN r.param_out ELSE params
    /\ UNCHANGED <<cvars, avars, optcontrol_in, optcontrol, with_sparse_solver,
                   constraint_algebraic, xvars, cd>>

InitControl ==
    /\ InitWith(MaxFitParams)
    /\ with_sparse_solver \in BOOLEAN
    /\ constraint_algebraic \in BOOLEAN

NextControl ==
    \/ GetMappingConstraint
    \/ SetOptimizerControl
    \/ OptimizeMain

SpecControl == InitControl /\ [][NextControl]_vars

----------------------------------------------------------------------------
(* The two entry points of a fit, Optimize::optimize_main and               *)
(* Fitting::fitmain, called with a params array an earlier run may have     *)
(* stored.                                                                  *)

\* Fitting::fit_algebraic_constraints: the expansion runs whatever INFO is
fitting_fit_algebraic_constraints(N_new, info, v) ==
    [info_fitting |-> info,
     param_out |-> recover_original_forceconstants(maxorder, SolverOutput(N_new, v), nequiv,
                                                   const_fix, const_relate, index_bimap)]

\* Fitting::run_eigen_sparseQR: param_out is written after a successful
\* factorization only
fitting_run_eigen_sparseQR(N_new, param_out, info, v) ==
    IF info = 0
    THEN [info_fitting |-> 0,
          param_out |-> recover_original_forceconstants(maxorder, SolverOutput(N_new, v), nequiv,
                                                        const_fix, const_relate, index_bimap)]
    ELSE [info_fitting |-> 1, param_out |-> param_out]

\* Fitting::fitmain up to the copy to params: param_tmp(N) starts as zeros
fitmain_solve(N, N_new, info, v) ==
    IF constraint_algebraic
    THEN IF use_sparseQR # 0
         THEN IF with_sparse_solver
              THEN fitting_run_eigen_sparseQR(N_new, Zeros(N), info, v) @@ [fatal |-> FALSE]
              ELSE [info_fitting |-> 0, param_out |-> Zeros(N), fatal |-> TRUE]
         ELSE fitting_fit_algebraic_constraints(N_new, info, v) @@ [fatal |-> FALSE]
    ELSE [info_fitting |-> info, param_out |-> SolverOutput(N, v), fatal |-> FALSE]

\* the params array an earlier run stored
StoredParams == [i \in 0..(NTotal - 1) |-> 7]

\* accepted configurations: least squares (dense, sparse), one elastic-net
\* solve, a penalty grid
EntryControls ==
    {[DefaultControl EXCEPT !.optimizer = 1],
     [DefaultControl EXCEPT !.optimizer = 1, !.use_sparse_solver = 1],
     [DefaultControl EXCEPT !.optimizer = 2, !.l1_ratio = One],
     [DefaultControl EXCEPT !.optimizer = 2, !.l1_ratio = One, !.cross_validation_mode = 1,
                            !.l1_alpha_min = One, !.l1_alpha_max = 2 * One]}

InitEntry ==
    /\ pc = "stored"
    /\ maxorder = 1
    /\ nequiv \in SizeVectors(1, MaxFitParams)
    /\ const_symmetry \in ConstraintVectors(nequiv)
    /\ const_fix = [o \in 1..maxorder |-> FixEntries(const_symmetry[o])]
    /\ const_relate = [o \in 1..maxorder |-> RelateEntries(const_symmetry[o])]
    /\ index_bimap = [o \in 1..maxorder |->
                         FreeIndexMap(nequiv[o], FixEntries(const_symmetry[o]),
                                      RelateEntries(const_symmetry[o]))]
    /\ cmp = <<>>
    /\ data = <<>>
    /\ fit = <<>>
    /\ gam = <<>>
    /\ use_sparseQR \in {0, 1}
    /\ param_in = <<>>
    /\ params \in {<<>>, StoredParams}
    /\ amat_orig_tmp = <<>>
    /\ f_multi = 0
    /\ amat = <<>>
    /\ bvec = 0
    /\ optcontrol_in \in EntryControls
    /\ optcontrol = optcontrol_in
    /\ INFO = 0
    /\ info_fitting = 0
    /\ l1_alpha_path = <<>>
    /\ with_sparse_solver \in BOOLEAN
    /\ constraint_algebraic \in BOOLEAN
    /\ calls = <<>>
    /\ fcs_tmp = <<>>
    /\ omp = <<>>
    /\ cd = <<>>

\* Fitting::fitmain: the solution vector param_tmp is copied to params
\* whatever the status is
FitMain ==
    /\ pc = "stored"
    /\ \E info \in SolverInfos, v \in ParamVals :
          LET N == NTotal
              N_new == IF constraint_algebraic THEN Nirred ELSE 0
              r == fitmain_solve(N, N_new, info, v)
          IN IF r.fatal
             THEN /\ pc' = "exited"
                  /\ UNCHANGED <<INFO, info_fitting, params, fcs_tmp>>
             ELSE /\ pc' = "fitted"
                  /\ INFO' = info
                  /\ info_fitting' = r.info_fitting
                  /\ fcs_tmp' = r.param_out
                  /\ params' = r.param_out
    /\ UNCHANGED <<cvars, param_in, avars, optcontrol_in, optcontrol, l1_alpha_path,
                   with_sparse_solver, constraint_algebraic, calls, xvars, cd>>

NextEntry ==
    \/ OptimizeMain
    \/ FitMain

SpecEntry == InitEntry /\ [][NextEntry]_vars

----------------------------------------------------------------------------
(* Real arithmetic: a real is a fraction <<n, d>> in lowest terms, d > 0;
   <<0, 0>> is NaN, which every operation hands on and every comparison
   answers with false *)

Abs(n) == IF n < 0 THEN -n ELSE n

RECURSIVE Gcd(_, _)
Gcd(a, b) == IF b = 0 THEN a ELSE Gcd(b, a % b)

NaN == <<0, 0>>
IsNaN(p) == p[2] = 0

Rat(n, d) ==
    IF d = 0 THEN NaN
    ELSE LET g == Gcd(Abs(n), Abs(d))
             sgn == IF d < 0 THEN -1 ELSE 1
         IN <<(sgn * n) \div g, (sgn * d) \div g>>

RZero == <<0, 1>>
FromInt(n) == <<n, 1>>
Real(ticks) == Rat(ticks, One)
RAdd(p, q) == Rat(p[1] * q[2] + q[1] * p[2], p[2] * q[2])
RSub(p, q) == Rat(p[1] * q[2] - q[1] * p[2], p[2] * q[2])
RMul(p, q) == Rat(p[1] * q[1], p[2] * q[2])
RDiv(p, q) == Rat(p[1] * q[2], p[2] * q[1])
RNeg(p) == <<-p[1], p[2]>>
RAbs(p) == <<Abs(p[1]), p[2]>>
RLess(p, q) == p[1] * q[2] < q[1] * p[2]

RECURSIVE RSum(_)
RSum(s) == IF s = <<>> THEN RZero ELSE RAdd(s[1], RSum(Tail(s)))

----------------------------------------------------------------------------
(* ElasticNetSolver: Optimize::coordinate_descent, step by step *)

\* the soft-threshold operator: sign(x) * max(|x| - a, 0)
shrink(x, a) ==
    LET m == RSub(RAbs(x), a)
        mx == IF RLess(RZero, m) THEN m ELSE RZero
    IN IF IsNaN(x) \/ IsNaN(a) THEN NaN
       ELSE IF x[1] > 0 THEN mx ELSE IF x[1] < 0 THEN RNeg(mx) ELSE RZero

ColDot(u, v) == SumSeq([k \in 1..Len(u) |-> u[k] * v[k]])

\* grad0 = A.transpose() * b
Grad0(A, b) == [j \in DOMAIN A |-> FromInt(ColDot(A[j], b))]

\* Optimize::get_standardizer: scale_beta(j)
get_standardizer(A, M, j) ==
    IF optcontrol.standardize # 0 THEN FromInt(1)
    ELSE RDiv(FromInt(1), Rat(ColDot(A[j], A[j]), M))

\* scale_beta_enet(i) = 1 / (1 / scale_beta(i) + (1 - l1_ratio) * l1_alpha)
ScaleBetaEnet(A, M, l1_alpha) ==
    [j \in DOMAIN A |->
        RDiv(FromInt(1),
             RAdd(RDiv(FromInt(1), get_standardizer(A, M, j)),
                  RMul(RSub(FromInt(1), Real(optcontrol.l1_ratio)), l1_alpha)))]

\* Optimize::get_esimated_max_alpha: max_i |(A^T b)(i)| / rows
RECURSIVE LambdaMax(_, _, _)
LambdaMax(A, b, n) ==
    IF n = 0 THEN 0
    ELSE LET rest == LambdaMax(A, b, n - 1)
             c == Abs(ColDot(A[n - 1], b))
         IN IF rest < c THEN c ELSE rest

get_esimated_max_alpha(A, M, b) == Rat(LambdaMax(A, b, Cardinality(DOMAIN A)), M)

CDPositions == {"while", "for", "after", "aborted"}

\* the arguments of the first solve: the matrix as the caller prepared it
\* (standardized or not), has_prod all false, grad = grad0
CDData ==
    {[M |-> 2, N |-> n, A |-> a, b |-> bv, alpha |-> RZero, warm_start |-> 0,
      x |-> [j \in 0..(n - 1) |-> RZero], grad |-> Grad0(a, bv),
      has_prod |-> [j \in 0..(n - 1) |-> FALSE],
      Prod |-> [j \in 0..(n - 1) |-> [k \in 0..(n - 1) |-> 0]],
      scale_beta |-> [j \in 0..(n - 1) |-> FromInt(1)],
      beta |-> [j \in 0..(n - 1) |-> RZero], delta |-> [j \in 0..(n - 1) |-> RZero],
      iloop |-> 0, i |-> 0, nsolve |-> 0,
      verbosity |-> v, met |-> FALSE, report |-> "none"] :
        n \in 1..MaxCoef, bv \in ForceColumns, v \in VerbosityVals,
        a \in UNION {[0..(m - 1) -> IF optcontrol.standardize # 0
                                      THEN StandardColumns ELSE RawColumns] : m \in 1..MaxCoef}}

\* the accepted elastic-net configurations of the solves; without
\* standardization l1_ratio is 1, which keeps the fractions of the updates small
SolveControls ==
    LET all == {[DefaultControl EXCEPT !.optimizer = 2, !.l1_ratio = r, !.l1_alpha_min = 1,
                            !.l1_alpha_max = 2, !.standardize = st, !.maxnum_iteration = mx,
                            !.tolerance_iteration = tol, !.output_frequency = fr] :
                   r \in SolveRatioVals, st \in {0, 1}, mx \in 0..MaxIter,
                   tol \in ToleranceVals, fr \in FrequencyVals}
    IN {c \in all : c.standardize = 0 => c.l1_ratio = One}

InitCD ==
    /\ pc = "idle"
    /\ maxorder = 1
    /\ nequiv = <<1>>
    /\ const_symmetry = <<<<>>>>
    /\ const_fix = <<<<>>>>
    /\ const_relate = <<<<>>>>
    /\ index_bimap = <<<<>>>>
    /\ cmp = <<>>
    /\ data = <<>>
    /\ use_sparseQR = <<>>
    /\ gam = <<>>
    /\ fit = <<>>
    /\ param_in = <<>>
    /\ params = <<>>
    /\ amat_orig_tmp = <<>>
    /\ f_multi = 0
    /\ amat = <<>>
    /\ bvec = 0
    /\ optcontrol_in \in SolveControls
    /\ optcontrol = optcontrol_in
    /\ INFO = 0
    /\ info_fitting = 0
    /\ l1_alpha_path = <<>>
    /\ with_sparse_solver = FALSE
    /\ constraint_algebraic = TRUE
    /\ calls = <<>>
    /\ fcs_tmp = <<>>
    /\ omp = <<>>
    /\ cd \in {d \in CDData : DOMAIN d.A = 0..(d.N - 1)}

Minv == Rat(1, cd.M)
alphlambda == RMul(cd.alpha, Real(optcontrol.l1_ratio))

\* (mutant of StartSolve) a warm start resets grad to grad0 as well
StartSolveResetGrad(l1_alpha, warm_start) ==
    [cd EXCEPT !.alpha = l1_alpha,
               !.warm_start = warm_start,
               !.scale_beta = ScaleBetaEnet(cd.A, cd.M, l1_alpha),
               !.beta = IF warm_start # 0 THEN cd.x
                        ELSE [j \in 0..(cd.N - 1) |-> RZero],
               !.grad = Grad0(cd.A, cd.b),
               !.iloop = 0, !.met = FALSE, !.report = "none"]

\* the call with its arguments and lines 2255-2268: a cold start sets beta
\* to 0 and grad to grad0, a warm start takes beta from x and leaves grad
StartSolve(l1_alpha, warm_start) ==
    [cd EXCEPT !.alpha = l1_alpha,
               !.warm_start = warm_start,
               !.scale_beta = ScaleBetaEnet(cd.A, cd.M, l1_alpha),
               !.beta = IF warm_start # 0 THEN cd.x
                        ELSE [j \in 0..(cd.N - 1) |-> RZero],
               !.grad = IF warm_start # 0 THEN cd.grad ELSE Grad0(cd.A, cd.b),
               !.iloop = 0, !.met = FALSE, !.report = "none"]

\* a solve of a path with any penalty: the first solve starts cold, the later
\* ones warm
CoordinateDescentEnter ==
    /\ pc = "idle"
    /\ cd.nsolve < MaxSolves
    /\ \E l1_alpha \in L1AlphaVals :
          cd' = StartSolve(FromInt(l1_alpha), IF cd.nsolve = 0 THEN 0 ELSE 1)
    /\ pc' = "while"
    /\ UNCHANGED <<cvars, param_in, params, avars, ovars>>

\* the loop test and the head of the loop body: (iloop + 1) % output_frequency
\* is undefined for output_frequency = 0 (the run may end there or go on)
CoordinateDescentWhile ==
    /\ pc = "while"
    /\ IF cd.iloop < optcontrol.maxnum_iteration
       THEN \/ /\ optcontrol.output_frequency = 0
               /\ pc' = "aborted"
               /\ cd' = cd
            \/ /\ pc' = "for"
               /\ cd' = [cd EXCEPT !.delta = cd.beta, !.i = 0]
       ELSE /\ pc' = "after"
            /\ cd' = cd
    /\ UNCHANGED <<cvars, param_in, params, avars, ovars>>

\* the new value of coordinate i
UpdatedBeta(i) ==
    IF optcontrol.standardize # 0
    THEN shrink(RAdd(RMul(Minv, cd.grad[i]), cd.beta[i]), alphlambda)
    ELSE RMul(shrink(RAdd(RMul(Minv, cd.grad[i]), RDiv(cd.beta[i], cd.scale_beta[i])),
                     alphlambda),
              cd.scale_beta[i])

\* (mutant of GramColumn) every entry is the squared norm of column i
GramColumnDiagonal(i) == [j \in 0..(cd.N - 1) |-> ColDot(cd.A[i], cd.A[i])]

\* for (j = 0; j < N; ++j) Prod(j, i) = A.col(j).dot(A.col(i))
GramColumn(i) == [j \in 0..(cd.N - 1) |-> ColDot(cd.A[j], cd.A[i])]

\* one pass of the for loop over the coordinates
CoordinateDescentUpdate ==
    /\ pc = "for"
    /\ cd.i < cd.N
    /\ LET i == cd.i
           b_i == UpdatedBeta(i)
           d_i == RSub(cd.delta[i], b_i)
           col == IF cd.has_prod[i] THEN cd.Prod[i] ELSE GramColumn(i)
       IN cd' = IF RAbs(d_i)[1] > 0
                THEN [cd EXCEPT !.beta[i] = b_i, !.delta[i] = d_i,
                                !.has_prod[i] = TRUE, !.Prod[i] = col,
                                !.grad = [j \in 0..(cd.N - 1) |->
                                             RAdd(cd.grad[j], RMul(FromInt(col[j]), d_i))],
                                !.i = i + 1]
                ELSE [cd EXCEPT !.beta[i] = b_i, !.delta[i] = d_i, !.i = i + 1]
    /\ pc' = "for"
    /\ UNCHANGED <<cvars, param_in, params, avars, ovars>>

\* (mutant) the test is diff <= tolerance_iteration
ConvergedOrEqual(delta, N) ==
    /\ optcontrol.tolerance_iteration >= 0
    /\ ~RLess(RMul(Real(optcontrol.tolerance_iteration), Real(optcontrol.tolerance_iteration)),
              RDiv(RSum([k \in 1..N |-> RMul(delta[k - 1], delta[k - 1])]), FromInt(N)))

\* diff < tolerance_iteration with diff = sqrt(delta.dot(delta) / N)
Converged(delta, N) ==
    /\ optcontrol.tolerance_iteration > 0
    /\ RLess(RDiv(RSum([k \in 1..N |-> RMul(delta[k - 1], delta[k - 1])]), FromInt(N)),
             RMul(Real(optcontrol.tolerance_iteration), Real(optcontrol.tolerance_iteration)))

\* the end of a sweep: ++iloop and the convergence test (met records that
\* the test succeeded)
CoordinateDescentSweepEnd ==
    /\ pc = "for"
    /\ cd.i = cd.N
    /\ cd' = [cd EXCEPT !.iloop = cd.iloop + 1, !.met = Converged(cd.delta, cd.N)]
    /\ pc' = IF Converged(cd.delta, cd.N) THEN "after" ELSE "while"
    /\ UNCHANGED <<cvars, param_in, params, avars, ovars>>

\* the message printed after the loop when verbosity > 0
ConvergenceReport ==
    IF cd.verbosity > 0
    THEN IF cd.iloop >= optcontrol.maxnum_iteration THEN "not_achieved" ELSE "achieved"
    ELSE "none"

\* after the loop: the report, x[i] = beta(i), and the return to the caller
CoordinateDescentReturn ==
    /\ pc = "after"
    /\ cd' = [cd EXCEPT !.x = cd.beta, !.nsolve = cd.nsolve + 1,
                        !.report = ConvergenceReport]
    /\ pc' = "idle"
    /\ UNCHANGED <<cvars, param_in, params, avars, ovars>>

NextCD ==
    \/ CoordinateDescentEnter
    \/ CoordinateDescentWhile
    \/ CoordinateDescentUpdate
    \/ CoordinateDescentSweepEnd
    \/ CoordinateDescentReturn

SpecCD == InitCD /\ [][NextCD]_vars

----------------------------------------------------------------------------
(* ElasticNetSolver: the penalty loop of run_elastic_net_crossvalidation *)

RECURSIVE Power(_, _)
Power(r, k) == IF k = 0 THEN 1 ELSE r * Power(r, k - 1)

\* l1_alpha_min * pow(l1_alpha_max / l1_alpha_min, (num - ialpha) / num) in
\* ticks for the grids whose points are whole ticks; 0 / 0 as an exponent and
\* 0 * infinity are NaN, and pow(., 0) is 1 whatever its base is
GridPoint(ialpha) ==
    LET lo == optcontrol.l1_alpha_min
        hi == optcontrol.l1_alpha_max
        num == optcontrol.num_l1_alpha
    IN IF num = 0 THEN NaN
       ELSE IF ialpha = num THEN Real(lo)
       ELSE IF lo = 0 THEN NaN
       ELSE Real(lo * (CHOOSE q \in 1..hi :
                          Power(q, num) * Power(lo, num - ialpha) = Power(hi, num - ialpha)))

\* accepted configurations of a penalty path: a grid of ratio 2 above a
\* positive l1_alpha_min, or l1_alpha_min = 0, or num_l1_alpha = 0
PathControls ==
    LET all == {[c EXCEPT !.cross_validation_mode = 1, !.num_l1_alpha = num, !.l1_alpha_min = lo,
                          !.l1_alpha_max = IF lo = 0 \/ num = 0 THEN 2 * One
                                           ELSE lo * Power(2, num)] :
                   c \in SolveControls, num \in 0..MaxGrid, lo \in {0, One}}
    IN {c \in all : ~ModeRejected(c) /\ ~RatioRejected(c) /\ ~BoundsRejected(c)}

InitPath ==
    /\ pc = "idle"
    /\ maxorder = 1
    /\ nequiv = <<1>>
    /\ const_symmetry = <<<<>>>>
    /\ const_fix = <<<<>>>>
    /\ const_relate = <<<<>>>>
    /\ index_bimap = <<<<>>>>
    /\ cmp = <<>>
    /\ data = <<>>
    /\ use_sparseQR = <<>>
    /\ gam = <<>>
    /\ fit = <<>>
    /\ param_in = <<>>
    /\ params = <<>>
    /\ amat_orig_tmp = <<>>
    /\ f_multi = 0
    /\ amat = <<>>
    /\ bvec = 0
    /\ optcontrol_in \in PathControls
    /\ optcontrol = optcontrol_in
    /\ INFO = 0
    /\ info_fitting = 0
    /\ l1_alpha_path = <<>>
    /\ with_sparse_solver = FALSE
    /\ constraint_algebraic = TRUE
    /\ calls = <<>>
    /\ fcs_tmp = <<>>
    /\ omp = <<>>
    /\ cd \in {d \in CDData : DOMAIN d.A = 0..(d.N - 1)}

\* the head of the loop body for ialpha (the number of solves made so far):
\* l1_alpha, initialize_mode, scale_beta_enet and the call
CrossValidationSolve ==
    /\ pc = "idle"
    /\ cd.nsolve <= optcontrol.num_l1_alpha
    /\ LET ialpha == cd.nsolve
           initialize_mode == IF ialpha = 0 THEN 0 ELSE 1
       IN /\ cd' = StartSolve(GridPoint(ialpha), initialize_mode)
          /\ l1_alpha_path' = Append(l1_alpha_path, GridPoint(ialpha))
    /\ pc' = "while"
    /\ UNCHANGED <<cvars, param_in, params, avars, optcontrol_in, optcontrol, INFO, info_fitting,
                   svars>>

\* the loop is over: return 1
CrossValidationReturn ==
    /\ pc = "idle"
    /\ cd.nsolve > optcontrol.num_l1_alpha
    /\ pc' = "returned"
    /\ info_fitting' = 1
    /\ UNCHANGED <<cvars, param_in, params, avars, optcontrol_in, optcontrol, INFO, l1_alpha_path,
                   svars, cd>>

NextPath ==
    \/ CrossValidationSolve
    \/ CoordinateDescentWhile
    \/ CoordinateDescentUpdate
    \/ CoordinateDescentSweepEnd
    \/ CoordinateDescentReturn
    \/ CrossValidationReturn

SpecPath == InitPath /\ [][NextPath]_vars

----------------------------------------------------------------------------
(* DesignMatrixAssembler: the parallel region of get_matrix_elements and of
   get_matrix_elements_algebraic_constraint.  Every thread takes rows irow from
   the omp for loop and runs the loop body on its private scratch buffers; one
   step is one access to the shared buffers amat and bvec. *)

Threads == 1..omp.nthreads

\* what a row computes in its private buffers: the force component and the
\* (projected) matrix element of row irow of the data
ForceElement(irow, i, j) == 100 * (irow + 1) + 3 * i + j
FixShift(irow, j) == 1000 * (irow + 1) + j
MatrixElement(irow, i, j) == 100 * (irow + 1) + 10 * i + j + 1

natmin3 == 3 * omp.natmin

\* im = 3 * i + j + natmin3 * irow
BvecOffset(irow, i, j) == 3 * i + j + natmin3 * irow

\* (mutant) the offset leaves out idata = natmin3 * irow
AmatOffsetWithoutRow(irow, i, j) == natmin3 * omp.ncycle * j + i

\* natmin3 * ncycle * j + i + idata
AmatOffset(irow, i, j) == natmin3 * omp.ncycle * j + i + natmin3 * irow

\* the buffers as least_squares sizes and zeroes them, and the region before
\* any thread has taken a row
OmpStart(nthreads, ncycle, ncols) ==
    [natmin |-> 1, nthreads |-> nthreads, ncycle |-> ncycle, ncols |-> ncols,
     amat |-> [k \in 0..(3 * ncycle * ncols - 1) |-> 0],
     bvec |-> [k \in 0..(3 * ncycle - 1) |-> 0],
     amat_by |-> [k \in 0..(3 * ncycle * ncols - 1) |-> <<>>],
     bvec_by |-> [k \in 0..(3 * ncycle - 1) |-> <<>>],
     outside |-> {},
     todo |-> 0..(ncycle - 1),
     th |-> [t \in 1..nthreads |-> [pc |-> "for", irow |-> 0, i |-> 0, j |-> 0]],
     took |-> [t \in 1..nthreads |-> {}]]

InitDense ==
    /\ pc = "parallel"
    /\ maxorder = 1
    /\ nequiv = <<1>>
    /\ const_symmetry = <<<<>>>>
    /\ const_fix = <<<<>>>>
    /\ const_relate = <<<<>>>>
    /\ index_bimap = <<<<>>>>
    /\ cmp = <<>>
    /\ data = <<>>
    /\ use_sparseQR = <<>>
    /\ gam = <<>>
    /\ fit = <<>>
    /\ param_in = <<>>
    /\ params = <<>>
    /\ amat_orig_tmp = <<>>
    /\ f_multi = 0
    /\ amat = <<>>
    /\ bvec = 0
    /\ optcontrol_in = DefaultControl
    /\ optcontrol = DefaultControl
    /\ INFO = 0
    /\ info_fitting = 0
    /\ l1_alpha_path = <<>>
    /\ with_sparse_solver = FALSE
    /\ constraint_algebraic \in BOOLEAN
    /\ calls = <<>>
    /\ fcs_tmp = <<>>
    /\ omp \in {OmpStart(n, c, k) : n \in 1..MaxThreads, c \in 1..MaxCycle, k \in 1..MaxCols}
    /\ cd = <<>>

OmpUnchanged == UNCHANGED <<pc, cvars, param_in, params, amat_orig_tmp, f_multi, amat, bvec, ovars, cd>>

\* a write of thread t to bvec[k]; a write outside the buffer is recorded
WriteBvec(t, irow, k, value) ==
    IF k \in DOMAIN omp.bvec
    THEN [omp EXCEPT !.bvec[k] = value, !.bvec_by[k] = Append(@, irow)]
    ELSE [omp EXCEPT !.outside = @ \cup {<<"bvec", k>>}]

WriteAmat(t, irow, k, value) ==
    IF k \in DOMAIN omp.amat
    THEN [omp EXCEPT !.amat[k] = value, !.amat_by[k] = Append(@, irow)]
    ELSE [omp EXCEPT !.outside = @ \cup {<<"amat", k>>}]

\* omp for schedule(guided): a thread that is between rows is handed a row
\* that no thread has had
OmpTakeRow(t) ==
    /\ pc = "parallel"
    /\ omp.th[t].pc = "for"
    /\ \E irow \in omp.todo :
          omp' = [omp EXCEPT !.todo = @ \ {irow},
                             !.took[t] = @ \cup {irow},
                             !.th[t] = [pc |-> "bvec", irow |-> irow, i |-> 0, j |-> 0]]
    /\ OmpUnchanged

\* bvec[im] = f_multi[irow][3 * iat + j], one element per step
OmpWriteBvec(t) ==
    /\ pc = "parallel"
    /\ omp.th[t].pc = "bvec"
    /\ LET me == omp.th[t]
           last == me.i = omp.natmin - 1 /\ me.j = 2
           after == IF last
                    THEN [me EXCEPT !.pc = IF constraint_algebraic THEN "fix" ELSE "amat",
                                    !.i = 0, !.j = 0]
                    ELSE IF me.j = 2 THEN [me EXCEPT !.i = @ + 1, !.j = 0]
                    ELSE [me EXCEPT !.j = @ + 1]
       IN omp' = [WriteBvec(t, me.irow, BvecOffset(me.irow, me.i, me.j),
                            ForceElement(me.irow, me.i, me.j))
                     EXCEPT !.th[t] = after]
    /\ OmpUnchanged

\* bvec[j + idata] -= val_to_fix * amat_orig_tmp[j][...], one element per step
OmpFixBvec(t) ==
    /\ pc = "parallel"
    /\ omp.th[t].pc = "fix"
    /\ LET me == omp.th[t]
           k == me.j + natmin3 * me.irow
           after == IF me.j = natmin3 - 1 THEN [me EXCEPT !.pc = "amat", !.i = 0, !.j = 0]
                    ELSE [me EXCEPT !.j = @ + 1]
           old == IF k \in DOMAIN omp.bvec THEN omp.bvec[k] ELSE 0
       IN omp' = [WriteBvec(t, me.irow, k, old - FixShift(me.irow, me.j))
                     EXCEPT !.th[t] = after]
    /\ OmpUnchanged

\* amat[natmin3 * ncycle * j + i + idata] = amat_mod_tmp[i][j], one element
\* per step; after the last one the thread is back at the loop
OmpWriteAmat(t) ==
    /\ pc = "parallel"
    /\ omp.th[t].pc = "amat"
    /\ LET me == omp.th[t]
           last == me.i = natmin3 - 1 /\ me.j = omp.ncols - 1
           after == IF last THEN [me EXCEPT !.pc = "for", !.i = 0, !.j = 0]
                    ELSE IF me.j = omp.ncols - 1 THEN [me EXCEPT !.i = @ + 1, !.j = 0]
                    ELSE [me EXCEPT !.j = @ + 1]
       IN omp' = [WriteAmat(t, me.irow, AmatOffset(me.irow, me.i, me.j),
                            MatrixElement(me.irow, me.i, me.j))
                     EXCEPT !.th[t] = after]
    /\ OmpUnchanged

\* the barrier at the end of the region
OmpJoin ==
    /\ pc = "parallel"
    /\ omp.todo = {}
    /\ \A t \in Threads : omp.th[t].pc = "for"
    /\ pc' = "assembled"
    /\ UNCHANGED <<cvars, param_in, params, avars, ovars, cd>>

NextDense ==
    \/ \E t \in Threads : OmpTakeRow(t)
    \/ \E t \in Threads : OmpWriteBvec(t)
    \/ \E t \in Threads : OmpFixBvec(t)
    \/ \E t \in Threads : OmpWriteAmat(t)
    \/ OmpJoin

SpecDense == InitDense /\ [][NextDense]_vars

----------------------------------------------------------------------------
(* DesignMatrixAssembler: the parallel region of
   get_matrix_elements_in_sparse_form.  A thread runs the body of a row on its
   private buffers and its private list nonzero_omp and, after the loop, copies
   that list to the shared nonzero_entries inside the critical section. *)

\* amat_mod_tmp[i][j] of row irow in ticks: 0, eps and values above eps occur
SparseElement(irow, i, j) ==
    LET r == (irow + 2 * i + j) % 4
    IN IF r = 0 THEN 0 ELSE IF r = 1 THEN eps ELSE IF r = 2 THEN One ELSE -One

\* (mutant) the threshold test keeps the entries of magnitude eps
AboveThresholdOrEqual(v) == Abs(v) >= eps

\* std::abs(amat_mod_tmp[i][j]) > eps
AboveThreshold(v) == Abs(v) > eps

\* the triplets T(idata + i, j, amat_mod_tmp[i][j]) a row pushes to nonzero_omp,
\* cells n, n + 1, ... of the row in the order of the loops over i and j
RECURSIVE RowTriplets(_, _)
RowTriplets(irow, n) ==
    IF n >= natmin3 * omp.ncols THEN <<>>
    ELSE LET i == n \div omp.ncols
             j == n % omp.ncols
             v == SparseElement(irow, i, j)
         IN (IF AboveThreshold(v) THEN <<<<natmin3 * irow + i, j, v>>>> ELSE <<>>)
                \o RowTriplets(irow, n + 1)

\* sp_bvec after the body of row irow
RECURSIVE RowBvec(_, _, _)
RowBvec(b, irow, n) ==
    IF n >= natmin3 THEN b
    ELSE RowBvec([b EXCEPT ![BvecOffset(irow, 0, n)] =
                               ForceElement(irow, 0, n) - FixShift(irow, n)],
                 irow, n + 1)

OmpSparseStart(nthreads, ncycle, ncols) ==
    [natmin |-> 1, nthreads |-> nthreads, ncycle |-> ncycle, ncols |-> ncols,
     bvec |-> [k \in 0..(3 * ncycle - 1) |-> 0],
     nonzero_entries |-> <<>>,
     nonzero_omp |-> [t \in 1..nthreads |-> <<>>],
     critical |-> 0,
     entered |-> [t \in 1..nthreads |-> 0],
     todo |-> 0..(ncycle - 1),
     th |-> [t \in 1..nthreads |-> [pc |-> "for", k |-> 0]],
     took |-> [t \in 1..nthreads |-> {}]]

InitSparse ==
    /\ pc = "parallel"
    /\ maxorder = 1
    /\ nequiv = <<1>>
    /\ const_symmetry = <<<<>>>>
    /\ const_fix = <<<<>>>>
    /\ const_relate = <<<<>>>>
    /\ index_bimap = <<<<>>>>
    /\ cmp = <<>>
    /\ data = <<>>
    /\ use_sparseQR = <<>>
    /\ gam = <<>>
    /\ fit = <<>>
    /\ param_in = <<>>
    /\ params = <<>>
    /\ amat_orig_tmp = <<>>
    /\ f_multi = 0
    /\ amat = <<>>
    /\ bvec = 0
    /\ optcontrol_in = [DefaultControl EXCEPT !.optimizer = 1, !.use_sparse_solver = 1]
    /\ optcontrol = optcontrol_in
    /\ INFO = 0
    /\ info_fitting = 0
    /\ l1_alpha_path = <<>>
    /\ with_sparse_solver = TRUE
    /\ constraint_algebraic = TRUE
    /\ calls = <<>>
    /\ fcs_tmp = <<>>
    /\ omp \in {OmpSparseStart(n, c, k) :
                    n \in 1..MaxThreads, c \in 1..(MaxCycle + 1), k \in 1..MaxCols}
    /\ cd = <<>>

\* the body of the omp for loop for a row no thread has had
SparseRow(t) ==
    /\ pc = "parallel"
    /\ omp.th[t].pc = "for"
    /\ \E irow \in omp.todo :
          omp' = [omp EXCEPT !.todo = @ \ {irow},
                             !.took[t] = @ \cup {irow},
                             !.bvec = RowBvec(@, irow, 0),
                             !.nonzero_omp[t] = @ \o RowTriplets(irow, 0)]
    /\ OmpUnchanged

\* the end of the omp for loop, where the threads wait for each other
SparseLoopEnd(t) ==
    /\ pc = "parallel"
    /\ omp.th[t].pc = "for"
    /\ omp.todo = {}
    /\ omp' = [omp EXCEPT !.th[t].pc = "barrier"]
    /\ OmpUnchanged

\* (mutant) the block after the loop is entered without mutual exclusion
CriticalFreeUnguarded(t) == \A u \in Threads : omp.th[u].pc # "for"

\* #pragma omp critical lets one thread in at a time, after the barrier
CriticalFree(t) ==
    /\ \A u \in Threads : omp.th[u].pc # "for"
    /\ omp.critical = 0

SparseEnterCritical(t) ==
    /\ pc = "parallel"
    /\ omp.th[t].pc = "barrier"
    /\ CriticalFree(t)
    /\ omp' = [omp EXCEPT !.critical = t, !.entered[t] = @ + 1,
                          !.th[t] = [pc |-> "critical", k |-> 0]]
    /\ OmpUnchanged

\* nonzero_entries.emplace_back(it), one element per step
SparseAppend(t) ==
    /\ pc = "parallel"
    /\ omp.th[t].pc = "critical"
    /\ omp.th[t].k < Len(omp.nonzero_omp[t])
    /\ omp' = [omp EXCEPT !.nonzero_entries = Append(@, omp.nonzero_omp[t][omp.th[t].k + 1]),
                          !.th[t].k = @ + 1]
    /\ OmpUnchanged

\* the end of the critical block
SparseLeaveCritical(t) ==
    /\ pc = "parallel"
    /\ omp.th[t].pc = "critical"
    /\ omp.th[t].k = Len(omp.nonzero_omp[t])
    /\ omp' = [omp EXCEPT !.critical = IF @ = t THEN 0 ELSE @, !.th[t].pc = "done"]
    /\ OmpUnchanged

\* the end of the parallel region
SparseJoin ==
    /\ pc = "parallel"
    /\ \A t \in Threads : omp.th[t].pc = "done"
    /\ pc' = "assembled"
    /\ UNCHANGED <<cvars, param_in, params, avars, ovars, cd>>

NextSparse ==
    \/ \E t \in Threads : SparseRow(t)
    \/ \E t \in Threads : SparseLoopEnd(t)
    \/ \E t \in Threads : SparseEnterCritical(t)
    \/ \E t \in Threads : SparseAppend(t)
    \/ \E t \in Threads : SparseLeaveCritical(t)
    \/ SparseJoin

SpecSparse == InitSparse /\ [][NextSparse]_vars

----------------------------------------------------------------------------
(* The sums that are only logged: tmp += std::abs(beta(i)) under
   #pragma omp parallel for reduction(+:tmp) in coordinate_descent, and the
   loop fnorm += bvec_orig[i] * bvec_orig[i] after the region of an assembler.
   A double keeps a bounded number of significant bits, so a sum depends on
   the order of its additions; the model keeps FloatLimit = 2^3 of them. *)

FloatLimit == 8

\* the nearest representable value, ties to even
RECURSIVE Fl(_)
Fl(x) ==
    IF x < FloatLimit THEN x
    ELSE LET q == x \div 2
         IN 2 * Fl(IF x % 2 = 0 THEN q ELSE q + (q % 2))

\* a + b in floating point
FAdd(a, b) == Fl(a + b)

\* the loop for (i = 0; i < n; ++i) acc += terms[i] run by one thread
RECURSIVE SerialSum(_, _)
SerialSum(terms, n) == IF n = 0 THEN 0 ELSE FAdd(SerialSum(terms, n - 1), terms[n])

\* the iterations a thread of the team is given: blocks of ceil(N / nthreads)
ChunkSize(N, nthreads) == (N + nthreads - 1) \div nthreads
ChunkLow(N, nthreads, t) == IF (t - 1) * ChunkSize(N, nthreads) < N
                            THEN (t - 1) * ChunkSize(N, nthreads) ELSE N
ChunkHigh(N, nthreads, t) == IF t * ChunkSize(N, nthreads) < N
                             THEN t * ChunkSize(N, nthreads) ELSE N

\* the team at the start of the reduction: every thread has a private tmp
\* of 0 and its block of iterations; bvec_orig is the list the later serial
\* loop sums
OmpReduceStart(nthreads, terms) ==
    [nthreads |-> nthreads, N |-> Len(terms), beta |-> terms, bvec_orig |-> terms,
     tmp |-> 0, fnorm |-> 0, i |-> 0,
     th |-> [t \in 1..nthreads |->
                [pc |-> "for", tmp |-> 0, i |-> ChunkLow(Len(terms), nthreads, t)]]]

InitReduce ==
    /\ pc = "parallel"
    /\ maxorder = 1
    /\ nequiv = <<1>>
    /\ const_symmetry = <<<<>>>>
    /\ const_fix = <<<<>>>>
    /\ const_relate = <<<<>>>>
    /\ index_bimap = <<<<>>>>
    /\ cmp = <<>>
    /\ data = <<>>
    /\ use_sparseQR = <<>>
    /\ gam = <<>>
    /\ fit = <<>>
    /\ param_in = <<>>
    /\ params = <<>>
    /\ amat_orig_tmp = <<>>
    /\ f_multi = 0
    /\ amat = <<>>
    /\ bvec = 0
    /\ optcontrol_in = DefaultControl
    /\ optcontrol = DefaultControl
    /\ INFO = 0
    /\ info_fitting = 0
    /\ l1_alpha_path = <<>>
    /\ with_sparse_solver = FALSE
    /\ constraint_algebraic = TRUE
    /\ calls = <<>>
    /\ fcs_tmp = <<>>
    /\ omp \in {OmpReduceStart(n, terms) :
                    n \in 1..MaxThreads, terms \in UNION {[1..k -> TermVals] : k \in 1..MaxTerms}}
    /\ cd = <<>>

\* tmp += std::abs(beta(i)) on the private copy of thread t
ReduceAdd(t) ==
    /\ pc = "parallel"
    /\ omp.th[t].pc = "for"
    /\ omp.th[t].i < ChunkHigh(omp.N, omp.nthreads, t)
    /\ omp' = [omp EXCEPT !.th[t].tmp = FAdd(@, omp.beta[omp.th[t].i + 1]),
                          !.th[t].i = @ + 1]
    /\ OmpUnchanged

\* the end of the block of thread t: its private copy is added to the shared
\* tmp, in the order in which the threads get there
ReduceCombine(t) ==
    /\ pc = "parallel"
    /\ omp.th[t].pc = "for"
    /\ omp.th[t].i >= ChunkHigh(omp.N, omp.nthreads, t)
    /\ omp' = [omp EXCEPT !.tmp = FAdd(@, omp.th[t].tmp), !.th[t].pc = "done"]
    /\ OmpUnchanged

\* the end of the parallel loop
ReduceJoin ==
    /\ pc = "parallel"
    /\ \A t \in Threads : omp.th[t].pc = "done"
    /\ pc' = "serial"
    /\ UNCHANGED <<cvars, param_in, params, avars, ovars, cd>>

\* fnorm += bvec_orig[i] * bvec_orig[i], outside any parallel region
FnormAdd ==
    /\ pc = "serial"
    /\ omp.i < omp.N
    /\ omp' = [omp EXCEPT !.fnorm = FAdd(@, omp.bvec_orig[omp.i + 1]), !.i = @ + 1]
    /\ OmpUnchanged

FnormEnd ==
    /\ pc = "serial"
    /\ omp.i = omp.N
    /\ pc' = "logged"
    /\ UNCHANGED <<cvars, param_in, params, avars, ovars, cd>>

NextReduce ==
    \/ \E t \in Threads : ReduceAdd(t)
    \/ \E t \in Threads : ReduceCombine(t)
    \/ ReduceJoin
    \/ FnormAdd
    \/ FnormEnd

SpecReduce == InitReduce /\ [][NextReduce]_vars

----------------------------------------------------------------------------
(* ConstraintRowReducer: three rows drawn from the bounded set are compared *)
(* pairwise by operator< and operator==.                                    *)

InitOrder ==
    /\ pc = "rows"
    /\ maxorder = 1
    /\ nequiv = <<1>>
    /\ const_symmetry = <<<<>>>>
    /\ const_fix = <<<<>>>>
    /\ const_relate = <<<<>>>>
    /\ index_bimap = <<<<>>>>
    /\ cmp \in {[obj |-> <<r1, r2, r3>>, type |-> "none", less |-> <<>>, equal |-> <<>>] :
                    r1 \in SparseRows(MaxRowLen), r2 \in SparseRows(MaxRowLen),
                    r3 \in SparseRows(MaxRowLen)}
    /\ data = <<>>
    /\ use_sparseQR = <<>>
    /\ gam = <<>>
    /\ fit = <<>>
    /\ param_in = <<>>
    /\ params = <<>>
    /\ amat_orig_tmp = <<>>
    /\ f_multi = 0
    /\ amat = <<>>
    /\ bvec = 0
    /\ optcontrol_in = DefaultControl
    /\ optcontrol = DefaultControl
    /\ INFO = 0
    /\ info_fitting = 0
    /\ l1_alpha_path = <<>>
    /\ with_sparse_solver = FALSE
    /\ constraint_algebraic = TRUE
    /\ calls = <<>>
    /\ fcs_tmp = <<>>
    /\ omp = <<>>
    /\ cd = <<>>

\* the three rows as rows of integer elements: every pair is handed to
\* operator< and to operator==
CompareIntegerRows ==
    /\ pc = "rows"
    /\ cmp' = [cmp EXCEPT
                  !.type = "integer",
                  !.less = [a \in 1..3 |-> [b \in 1..3 |-> RowLess(cmp.obj[a], cmp.obj[b], 1)]],
                  !.equal = [a \in 1..3 |-> [b \in 1..3 |->
                                IntegerRowEqual(cmp.obj[a], cmp.obj[b])]]]
    /\ pc' = "compared"
    /\ UNCHANGED <<maxorder, nequiv, const_symmetry, const_fix, const_relate, index_bimap,
                   param_in, params, avars, ovars, cd>>

\* the same for rows of double elements
CompareDoubleRows ==
    /\ pc = "rows"
    /\ cmp' = [cmp EXCEPT
                  !.type = "double",
                  !.less = [a \in 1..3 |-> [b \in 1..3 |-> RowLess(cmp.obj[a], cmp.obj[b], 1)]],
                  !.equal = [a \in 1..3 |-> [b \in 1..3 |->
                                DoubleRowEqual(cmp.obj[a], cmp.obj[b])]]]
    /\ pc' = "compared"
    /\ UNCHANGED <<maxorder, nequiv, const_symmetry, const_fix, const_relate, index_bimap,
                   param_in, params, avars, ovars, cd>>

NextOrder ==
    \/ CompareIntegerRows
    \/ CompareDoubleRows

SpecOrder == InitOrder /\ [][NextOrder]_vars

----------------------------------------------------------------------------
(* LeastSquaresSolver: the dense routines fit_without_constraints and       *)
(* fit_algebraic_constraints on the same matrix and target.  dgelss_ is     *)
(* computed for 0/1 matrices with nonzero, mutually orthogonal rows         *)
(* (M <= N, minimum-norm solution) or columns (M > N, least squares) and    *)
(* targets for which the solution is integral.                              *)

FitEntries == {0, 1}
FitTargets == {0, 12}

MaxOf(a, b) == IF a < b THEN b ELSE a

\* the dot product of rows i and k of A (N columns)
RowDot(A, N, i, k) == SumSeq([j \in 1..N |-> A[i][j - 1] * A[k][j - 1]])

\* the dot product of columns j and l of A (M rows)
ColumnDot(A, M, j, l) == SumSeq([i \in 1..M |-> A[i - 1][j] * A[i - 1][l]])

\* the matrices and targets of the solves
FitProblems(M, N) ==
    {pr \in [A : [0..(M - 1) -> [0..(N - 1) -> FitEntries]], b : [0..(M - 1) -> FitTargets]] :
        IF M <= N
        THEN \A i, k \in 0..(M - 1) :
                 IF i = k THEN RowDot(pr.A, N, i, i) # 0 ELSE RowDot(pr.A, N, i, k) = 0
        ELSE \A j, l \in 0..(N - 1) :
                 IF j = l THEN ColumnDot(pr.A, M, j, j) # 0 ELSE ColumnDot(pr.A, M, j, l) = 0}

\* the solution dgelss_ leaves in rows 0..N-1 of its B argument: the
\* minimum-norm solution A^T (A A^T)^-1 b for M <= N, the least-squares
\* solution (A^T A)^-1 A^T b for M > N
dgelss_solution(A, b, M, N) ==
    IF M <= N
    THEN [j \in 0..(N - 1) |->
             SumSeq([i \in 1..M |-> (A[i - 1][j] * b[i - 1]) \div RowDot(A, N, i - 1, i - 1)])]
    ELSE [j \in 0..(N - 1) |->
             SumSeq([i \in 1..M |-> A[i - 1][j] * b[i - 1]]) \div ColumnDot(A, M, j, j)]

\* fsum2 after the dgelss_ call: on success the solution in rows 0..N-1 (the
\* rows from N on carry the residual, which only the printed report reads and
\* which is left 0 here); on failure the contents are unspecified and the
\* model leaves the target in place
dgelss_(A, fsum2, M, N, info) ==
    IF info = 0
    THEN [i \in DOMAIN fsum2 |-> IF i < N THEN dgelss_solution(A, fsum2, M, N)[i] ELSE 0]
    ELSE fsum2

\* fsum2 as both routines fill it: LMAX entries, the target in the first M
TargetBuffer(b, M, N) == [i \in 0..(MaxOf(M, N) - 1) |-> IF i < M THEN b[i] ELSE 0]

\* (mutant of ParamIrred) all N entries of the solution are copied
ParamIrredAll(fsum2, M, N) == [i \in 0..(N - 1) |-> fsum2[i]]

\* fit_algebraic_constraints: param_irred(N, 0.0), then
\* for (i = 0; i < LMIN; ++i) param_irred[i] = fsum2[i]
ParamIrred(fsum2, M, N) == [i \in 0..(N - 1) |-> IF i < MinOf(M, N) THEN fsum2[i] ELSE 0]

\* the state after Constraint::setup for one order, and a solve with the N
\* free parameters of that constraint set and M rows
InitSolve ==
    /\ pc = "assembled"
    /\ maxorder = 1
    /\ nequiv \in SizeVectors(1, MaxFitParams)
    /\ const_symmetry \in ConstraintVectors(nequiv)
    /\ const_fix = [o \in 1..maxorder |-> FixEntries(const_symmetry[o])]
    /\ const_relate = [o \in 1..maxorder |-> RelateEntries(const_symmetry[o])]
    /\ index_bimap = [o \in 1..maxorder |->
                         FreeIndexMap(nequiv[o], FixEntries(const_symmetry[o]),
                                      RelateEntries(const_symmetry[o]))]
    /\ Nirred >= 1
    /\ cmp = <<>>
    /\ data = <<>>
    /\ use_sparseQR = <<>>
    /\ gam = <<>>
    /\ \E M \in 1..MaxFitRows, info \in SolverInfos :
          \E pr \in FitProblems(M, Nirred) :
              fit = [N |-> Nirred, M |-> M, A |-> pr.A, b |-> pr.b, info |-> info,
                     called |-> {}, without |-> <<>>, INFO_without |-> 0,
                     param_irred |-> <<>>, param_out |-> <<>>, INFO_algebraic |-> 0]
    /\ param_in = <<>>
    /\ params = <<>>
    /\ amat_orig_tmp = <<>>
    /\ f_multi = 0
    /\ amat = <<>>
    /\ bvec = 0
    /\ optcontrol_in = DefaultControl
    /\ optcontrol = DefaultControl
    /\ INFO = 0
    /\ info_fitting = 0
    /\ l1_alpha_path = <<>>
    /\ with_sparse_solver = FALSE
    /\ constraint_algebraic = TRUE
    /\ calls = <<>>
    /\ fcs_tmp = <<>>
    /\ omp = <<>>
    /\ cd = <<>>

FitUnchanged ==
    UNCHANGED <<cvars, param_in, params, avars, optcontrol_in, optcontrol, INFO, info_fitting,
                l1_alpha_path, with_sparse_solver, constraint_algebraic, calls, fcs_tmp, gam,
                use_sparseQR, data, cd>>

\* Optimize::fit_without_constraints: param_out[i] = fsum2[i] for i < N,
\* whatever INFO is
FitWithoutConstraints ==
    /\ pc = "assembled"
    /\ "fit_without_constraints" \notin fit.called
    /\ LET fsum2 == dgelss_(fit.A, TargetBuffer(fit.b, fit.M, fit.N), fit.M, fit.N, fit.info)
       IN fit' = [fit EXCEPT !.called = @ \cup {"fit_without_constraints"},
                             !.without = [i \in 0..(fit.N - 1) |-> fsum2[i]],
                             !.INFO_without = fit.info]
    /\ pc' = "assembled"
    /\ FitUnchanged

\* Optimize::fit_algebraic_constraints: the first LMIN entries of fsum2 are
\* copied to param_irred and expanded when INFO is 0
FitAlgebraicConstraints ==
    /\ pc = "assembled"
    /\ "fit_algebraic_constraints" \notin fit.called
    /\ LET fsum2 == dgelss_(fit.A, TargetBuffer(fit.b, fit.M, fit.N), fit.M, fit.N, fit.info)
           param_irred == ParamIrred(fsum2, fit.M, fit.N)
       IN fit' = IF fit.info = 0
                 THEN [fit EXCEPT !.called = @ \cup {"fit_algebraic_constraints"},
                                  !.param_irred = param_irred,
                                  !.param_out =
                                      recover_original_forceconstants(
                                          maxorder, param_irred, nequiv,
                                          const_fix, const_relate, index_bimap),
                                  !.INFO_algebraic = fit.info]
                 ELSE [fit EXCEPT !.called = @ \cup {"fit_algebraic_constraints"},
                                  !.INFO_algebraic = fit.info]
    /\ pc' = "assembled"
    /\ FitUnchanged

NextSolve ==
    \/ FitWithoutConstraints
    \/ FitAlgebraicConstraints

SpecSolve == InitSolve /\ [][NextSolve]_vars

----------------------------------------------------------------------------
(* DesignMatrixAssembler: the symmetry factor Optimize::gamma and its       *)
(* helper Optimize::factorial, in int arithmetic.                           *)

\* the largest int
IntMax == 2147483647

\* a * b leaves the range of int (a >= 1)
IntOverflows(a, b) ==
    \/ b > IntMax \div a
    \/ b < -(IntMax \div a) - (IF IntMax % a = a - 1 THEN 1 ELSE 0)

\* the low 32 bits of a * b as an int, from 16-bit halves (what an
\* overflowing multiplication leaves in a build that does not trap)
IntMul(a, b) ==
    LET al == a % 65536
        ah == (a \div 65536) % 65536
        bl == b % 65536
        bh == (b \div 65536) % 65536
        p1 == (al \div 256) * bl
        p0 == (al % 256) * bl
        low == p0 + (p1 % 256) * 256
        lo16 == low % 65536
        carry == (low \div 65536) + (p1 \div 256)
        hi16 == ((carry % 65536) + ((ah * bl) % 65536) + ((al * bh) % 65536)) % 65536
    IN IF hi16 >= 32768 THEN (hi16 - 65536) * 65536 + lo16 ELSE hi16 * 65536 + lo16

\* Optimize::factorial: the value and whether a multiplication overflowed;
\* below 0 the recursion never reaches n == 1 || n == 0
RECURSIVE factorial(_)
factorial(n) ==
    IF n = 1 \/ n = 0 THEN [val |-> 1, ub |-> FALSE]
    ELSE IF n < 0 THEN [val |-> 0, ub |-> TRUE]
    ELSE LET r == factorial(n - 1)
         IN [val |-> IntMul(n, r.val), ub |-> r.ub \/ IntOverflows(n, r.val)]

\* insort(n, arr_tmp): the entries in ascending order
insort(n, arr) ==
    [p \in 0..(n - 1) |->
        CHOOSE v \in {arr[q] : q \in 0..(n - 1)} :
            /\ Cardinality({q \in 0..(n - 1) : arr[q] < v}) <= p
            /\ p < Cardinality({q \in 0..(n - 1) : arr[q] <= v})]

\* the loop for (i = 1; i < n; ++i) of gamma
RECURSIVE NsameLoop(_, _, _, _, _)
NsameLoop(c, i, n, arr, arr_tmp) ==
    IF i >= n THEN c
    ELSE LET counted == IF arr_tmp[i] = arr_tmp[i - 1]
                        THEN [c EXCEPT !.nsame[c.iuniq] = @ + 1]
                        ELSE [c EXCEPT !.nsame[c.iuniq + 1] = @ + 1,
                                       !.iuniq = c.iuniq + 1, !.nuniq = c.nuniq + 1]
         IN NsameLoop(IF arr[i] = arr[0]
                      THEN [counted EXCEPT !.nsame_to_front = @ + 1] ELSE counted,
                      i + 1, n, arr, arr_tmp)

\* the loop for (i = 0; i < nuniq; ++i) denom *= factorial(nsame[i])
RECURSIVE DenomLoop(_, _, _)
DenomLoop(d, i, c) ==
    IF i >= c.nuniq THEN d
    ELSE LET f == factorial(c.nsame[i])
         IN DenomLoop([denom |-> IntMul(f.val, d.denom),
                       ub |-> d.ub \/ f.ub \/ (f.val >= 1 /\ IntOverflows(f.val, d.denom)),
                       args |-> Append(d.args, c.nsame[i])],
                      i + 1, c)

\* Optimize::gamma up to its return statement
gamma(n, arr) ==
    LET c == NsameLoop([nsame |-> [i \in 0..(n - 1) |-> IF i = 0 THEN 1 ELSE 0],
                        iuniq |-> 0, nuniq |-> 1, nsame_to_front |-> 1],
                       1, n, arr, insort(n, arr))
        d == DenomLoop([denom |-> 1, ub |-> FALSE, args |-> <<>>], 0, c)
    IN [nsame |-> c.nsame, nuniq |-> c.nuniq, nsame_to_front |-> c.nsame_to_front,
        denom |-> d.denom, ub |-> d.ub, args |-> d.args]

\* the index tuples: short ones over three indices, and long ones in which
\* all entries but at most two are the index 0
IndexTuples ==
    UNION {[0..(n - 1) -> 0..2] : n \in 1..MaxTupleLen}
        \cup UNION {{arr \in [0..(n - 1) -> 0..1] :
                        Cardinality({j \in 0..(n - 1) : arr[j] = 1}) <= 2} :
                    n \in 1..MaxLongTupleLen}

TupleLen(arr) == Cardinality(DOMAIN arr)

InitGamma ==
    /\ pc = "tuple"
    /\ maxorder = 1
    /\ nequiv = <<1>>
    /\ const_symmetry = <<<<>>>>
    /\ const_fix = <<<<>>>>
    /\ const_relate = <<<<>>>>
    /\ index_bimap = <<<<>>>>
    /\ cmp = <<>>
    /\ data = <<>>
    /\ use_sparseQR = <<>>
    /\ fit = <<>>
    /\ \E arr \in IndexTuples :
          gam = [n |-> TupleLen(arr), arr |-> arr, nsame_to_front |-> 0, denom |-> 0,
                 args |-> <<>>, ub |-> FALSE, result |-> RZero]
    /\ param_in = <<>>
    /\ params = <<>>
    /\ amat_orig_tmp = <<>>
    /\ f_multi = 0
    /\ amat = <<>>
    /\ bvec = 0
    /\ optcontrol_in = DefaultControl
    /\ optcontrol = DefaultControl
    /\ INFO = 0
    /\ info_fitting = 0
    /\ l1_alpha_path = <<>>
    /\ with_sparse_solver = FALSE
    /\ constraint_algebraic = TRUE
    /\ calls = <<>>
    /\ fcs_tmp = <<>>
    /\ omp = <<>>
    /\ cd = <<>>

\* a call of gamma: signed overflow in factorial or in denom is undefined;
\* the build either traps or goes on with the low 32 bits
Gamma ==
    /\ pc = "tuple"
    /\ LET g == gamma(gam.n, gam.arr)
       IN \/ /\ g.ub
             /\ pc' = "aborted"
             /\ gam' = [gam EXCEPT !.ub = TRUE, !.args = g.args]
          \/ /\ pc' = "returned"
             /\ gam' = [gam EXCEPT !.nsame_to_front = g.nsame_to_front, !.denom = g.denom,
                                   !.args = g.args, !.ub = g.ub,
                                   !.result = Rat(g.nsame_to_front, g.denom)]
    /\ UNCHANGED <<cvars, param_in, params, avars, optcontrol_in, optcontrol, INFO, info_fitting,
                   l1_alpha_path, with_sparse_solver, constraint_algebraic, calls, fcs_tmp,
                   fit, use_sparseQR, data, cd>>

NextGamma == Gamma

SpecGamma == InitGamma /\ [][NextGamma]_vars

----------------------------------------------------------------------------
(* The data window of Optimize: the members nstart, nend, skip_s, skip_e,
   ndata_used, u_in, f_in, and what optimize_main, least_squares and
   elastic_net do with them.  A data set is a row [set, index, u]: the file
   it was read from, its position among the rows read, and one displacement
   component.  elastic_net is followed statement by statement, so that the
   values it holds between the scaling and the solve are states. *)

MaxData == 2

\* the data sets a caller hands to set_displacement_and_force through the API
\* or InputParser::parse_displacement_and_force_files reads from a file
DataRows(set, n) == [k \in 1..n |-> [set |-> set, index |-> k, u |-> FromInt(1)]]

\* the nearest real with FloatLimit = 2^3 significant bits, ties to even
RECURSIVE FlPos(_, _)
FlPos(n, d) ==
    IF n >= FloatLimit * d THEN RMul(FromInt(2), FlPos(n, 2 * d))
    ELSE IF 2 * n < FloatLimit * d THEN RMul(Rat(1, 2), FlPos(2 * n, d))
    ELSE LET q == n \div d
             r == n % d
         IN FromInt(IF 2 * r > d \/ (2 * r = d /\ q % 2 = 1) THEN q + 1 ELSE q)

FlReal(p) ==
    IF IsNaN(p) \/ p[1] = 0 THEN p
    ELSE IF p[1] < 0 THEN RNeg(FlPos(-p[1], p[2])) ELSE FlPos(p[1], p[2])

\* a * b and a / b in floating point
FMul(a, b) == FlReal(RMul(a, b))
FDiv(a, b) == FlReal(RDiv(a, b))

\* std::pow with an integer exponent
RECURSIVE RPow(_, _)
RPow(x, k) == IF k = 0 THEN FromInt(1) ELSE RMul(x, RPow(x, k - 1))
pow(x, k) == FlReal(RPow(x, k))

\* the control of a run together with its displacement_scaling_factor
WindowControl(c, dnorm) ==
    [k \in DOMAIN c \cup {"displacement_scaling_factor"} |->
        IF k = "displacement_scaling_factor" THEN dnorm ELSE c[k]]

\* the values a caller pins parameters to
FixedVals == {0, 1, 3}

\* const_fix of one order with every pinned parameter set to the value v
FixEntriesAt(rows, v) ==
    [j \in DOMAIN FixEntries(rows) |->
        ConstraintTypeFix(FixEntries(rows)[j].p_index_target, FromInt(v))]

\* the members after construction (nstart = 1, nend = 0, skip_s = skip_e = 0,
\* ndata_used = 0, u_in = f_in = nullptr) and the locals of a run
InitWindow ==
    /\ pc = "caller"
    /\ maxorder \in 1..MaxOrder
    /\ nequiv \in SizeVectors(maxorder, MaxOrder)
    /\ const_symmetry \in ConstraintVectors(nequiv)
    /\ \E v \in FixedVals :
          const_fix = [o \in 1..maxorder |-> FixEntriesAt(const_symmetry[o], v)]
    /\ const_relate = [o \in 1..maxorder |-> RelateEntries(const_symmetry[o])]
    /\ index_bimap = [o \in 1..maxorder |->
                         FreeIndexMap(nequiv[o], FixEntries(const_symmetry[o]),
                                      RelateEntries(const_symmetry[o]))]
    /\ cmp = <<>>
    /\ fit = <<>>
    /\ gam = <<>>
    /\ use_sparseQR = <<>>
    /\ \E natmin \in {1}, ntran \in 1..2, nend_test \in 1..MaxData :
          data = [nstart |-> 1, nend |-> 0, skip_s |-> 0, skip_e |-> 0,
                  ndata_used |-> 0, u_in |-> <<>>, f_in |-> <<>>,
                  nstart_test |-> 1, nend_test |-> nend_test,
                  natmin |-> natmin, ntran |-> ntran,
                  ndata_used_main |-> 0, ndata_used_test |-> 0, M |-> 0, M_test |-> 0,
                  u |-> <<>>, f |-> <<>>, u_test |-> <<>>, f_test |-> <<>>,
                  nrows |-> 0, nrows_test |-> 0, solver_M |-> 0, solver_M_test |-> 0,
                  const_fix_in |-> <<>>, const_relate_in |-> <<>>, index_bimap_in |-> <<>>]
    /\ param_in = <<>>
    /\ params = <<>>
    /\ amat_orig_tmp = <<>>
    /\ f_multi = 0
    /\ amat = <<>>
    /\ bvec = 0
    /\ \E optimizer \in {1, 2}, cv \in {0, 1}, standardize \in {0, 1}, dnorm \in {1, 3} :
          /\ optimizer = 1 => cv = 0 /\ standardize = 0 /\ dnorm = 1
          /\ optcontrol_in = WindowControl([DefaultControl EXCEPT
                                               !.optimizer = optimizer,
                                               !.cross_validation_mode = cv,
                                               !.standardize = standardize],
                                           FromInt(dnorm))
    /\ optcontrol = optcontrol_in
    /\ INFO = 0
    /\ info_fitting = 0
    /\ l1_alpha_path = <<>>
    /\ with_sparse_solver = FALSE
    /\ constraint_algebraic = TRUE
    /\ calls = <<>>
    /\ fcs_tmp = <<>>
    /\ omp = <<>>
    /\ cd = <<>>

WindowUnchanged ==
    UNCHANGED <<maxorder, nequiv, const_symmetry, const_relate, index_bimap, cmp, param_in,
                params, avars, optcontrol_in, optcontrol, INFO, info_fitting, l1_alpha_path,
                with_sparse_solver, constraint_algebraic, calls, fcs_tmp, fit, gam,
                use_sparseQR, cd>>

\* Optimize::set_nstart, set_nend, set_skip_s, set_skip_e
SetNstart ==
    /\ pc = "caller"
    /\ \E nstart_in \in 1..MaxData : data' = [data EXCEPT !.nstart = nstart_in]
    /\ UNCHANGED <<pc, const_fix>>
    /\ WindowUnchanged

SetNend ==
    /\ pc = "caller"
    /\ \E nend_in \in 1..MaxData : data' = [data EXCEPT !.nend = nend_in]
    /\ UNCHANGED <<pc, const_fix>>
    /\ WindowUnchanged

SetSkipS ==
    /\ pc = "caller"
    /\ \E skip_s_in \in 0..1 : data' = [data EXCEPT !.skip_s = skip_s_in]
    /\ UNCHANGED <<pc, const_fix>>
    /\ WindowUnchanged

SetSkipE ==
    /\ pc = "caller"
    /\ \E skip_e_in \in 0..1 : data' = [data EXCEPT !.skip_e = skip_e_in]
    /\ UNCHANGED <<pc, const_fix>>
    /\ WindowUnchanged

\* Optimize::set_displacement_and_force(disp_in, force_in, nat, ndata_used_in):
\* the first ndata_used_in rows of disp_in and force_in become u_in and f_in
set_displacement_and_force(d, disp_in, force_in, ndata_used_in) ==
    [d EXCEPT !.ndata_used = ndata_used_in,
              !.u_in = [i \in 1..ndata_used_in |->
                           IF i <= Len(disp_in) THEN disp_in[i]
                           ELSE [set |-> "outside", index |-> i, u |-> FromInt(1)]],
              !.f_in = [i \in 1..ndata_used_in |->
                           IF i <= Len(force_in) THEN force_in[i]
                           ELSE [set |-> "outside", index |-> i, u |-> FromInt(1)]]]

\* the call of set_displacement_and_force by a user of the API
SetDisplacementAndForce ==
    /\ pc = "caller"
    /\ \E ndata_used_in \in 1..MaxData :
          data' = set_displacement_and_force(data, DataRows("caller", ndata_used_in),
                                             DataRows("caller", ndata_used_in), ndata_used_in)
    /\ UNCHANGED <<pc, const_fix>>
    /\ WindowUnchanged

\* 3 * natmin * ndata * ntran
RowCount(d, ndata) == 3 * d.natmin * ndata * d.ntran

\* optimize_main up to the call of least_squares or elastic_net: the local
\* ndata_used and M, the buffers u and f, and the files read into them.  The
\* window is one that holds data: at least one training set is left
OptimizeMainEnter ==
    /\ pc = "caller"
    /\ LET ndata_used == data.nend - data.nstart + 1 - data.skip_e + data.skip_s
           ndata_used_test == data.nend_test - data.nstart_test + 1
           parsed == \/ (optcontrol.optimizer = 1 /\ data.u_in = <<>>)
                     \/ optcontrol.optimizer = 2
           tested == optcontrol.optimizer = 2 /\ optcontrol.cross_validation_mode = 1
       IN /\ data.nstart <= data.nend
          /\ data.skip_s <= data.skip_e
          /\ ndata_used >= 1
          /\ data' = [data EXCEPT
                         !.ndata_used_main = ndata_used,
                         !.ndata_used_test = ndata_used_test,
                         !.M = RowCount(data, ndata_used),
                         !.M_test = RowCount(data, ndata_used_test),
                         !.u = IF parsed THEN DataRows("training", ndata_used)
                               ELSE DataRows("unset", ndata_used),
                         !.f = IF parsed THEN DataRows("training", ndata_used)
                               ELSE DataRows("unset", ndata_used),
                         !.u_test = IF tested THEN DataRows("test", ndata_used_test) ELSE <<>>,
                         !.f_test = IF tested THEN DataRows("test", ndata_used_test) ELSE <<>>,
                         !.const_fix_in = const_fix,
                         !.const_relate_in = const_relate,
                         !.index_bimap_in = index_bimap]
    /\ pc' = IF optcontrol.optimizer = 1 THEN "least_squares" ELSE "elastic_net"
    /\ UNCHANGED const_fix
    /\ WindowUnchanged

\* least_squares with algebraic constraints: amat and bvec get nrows rows, the
\* assembler fills them from the ndata_used stored data sets, and the solver
\* is handed M
LeastSquares ==
    /\ pc = "least_squares"
    /\ data' = [data EXCEPT !.nrows = RowCount(data, data.ndata_used),
                            !.solver_M = data.M]
    /\ pc' = "returned"
    /\ UNCHANGED const_fix
    /\ WindowUnchanged

scale_displacement ==
    /\ RLess(Real(eps), RAbs(RSub(optcontrol.displacement_scaling_factor, FromInt(1))))
    /\ optcontrol.standardize = 0

\* u[i][j] *= inv_dnorm for the first n rows of u
ScaleRows(u, n) ==
    LET inv_dnorm == FDiv(FromInt(1), optcontrol.displacement_scaling_factor)
    IN [i \in 1..Len(u) |-> IF i <= n THEN [u[i] EXCEPT !.u = FMul(u[i].u, inv_dnorm)]
                            ELSE u[i]]

\* val_to_fix * scale_factor for every FixEntry of every order, with
\* scale_factor = pow(dnorm, order) or 1.0 / pow(dnorm, order)
ScaleFix(fix, back) ==
    [o \in DOMAIN fix |->
        LET p == pow(optcontrol.displacement_scaling_factor, o)
            scale_factor == IF back THEN FDiv(FromInt(1), p) ELSE p
        IN [j \in DOMAIN fix[o] |->
               ConstraintTypeFix(fix[o][j].p_index_target,
                                 FMul(fix[o][j].val_to_fix, scale_factor))]]

\* (mutant) the values are left as they were scaled
ScaleFixKept(fix, back) == IF back THEN fix ELSE ScaleFix(fix, back)

\* the loops over i < ndata_used run past the ndata_used_main rows of u and f
WindowOverrun == data.ndata_used > Len(data.u)

\* elastic_net, lines 459-485: nrows, and the scaling of u and of val_to_fix
ElasticNetScale ==
    /\ pc = "elastic_net"
    /\ \/ /\ pc' = "scaled"
          /\ data' = [data EXCEPT
                         !.nrows = RowCount(data, data.ndata_used),
                         !.u = IF scale_displacement THEN ScaleRows(data.u, data.ndata_used)
                               ELSE data.u]
          /\ const_fix' = IF scale_displacement THEN ScaleFix(const_fix, FALSE) ELSE const_fix
       \/ /\ scale_displacement
          /\ WindowOverrun
          /\ pc' = "aborted"
          /\ UNCHANGED <<data, const_fix>>
    /\ WindowUnchanged

\* lines 487-514: the training rows are stored and assembled, u and f freed
ElasticNetAssemble ==
    /\ pc = "scaled"
    /\ \/ /\ pc' = IF optcontrol.cross_validation_mode = 1 THEN "validation" ELSE "assembled"
          /\ data' = [set_displacement_and_force(data, data.u, data.f, data.ndata_used)
                         EXCEPT !.u = <<>>, !.f = <<>>]
       \/ /\ WindowOverrun
          /\ pc' = "aborted"
          /\ UNCHANGED data
    /\ UNCHANGED const_fix
    /\ WindowUnchanged

\* lines 516-550: with a validation set, the test rows are scaled, stored and
\* assembled in the same way
ElasticNetAssembleTest ==
    /\ pc = "validation"
    /\ LET ndata_used_test == data.nend_test - data.nstart_test + 1
           u_test == IF scale_displacement THEN ScaleRows(data.u_test, ndata_used_test)
                     ELSE data.u_test
       IN data' = [set_displacement_and_force(data, u_test, data.f_test, ndata_used_test)
                      EXCEPT !.nrows_test = RowCount(data, ndata_used_test),
                             !.u_test = <<>>, !.f_test = <<>>]
    /\ pc' = "assembled"
    /\ UNCHANGED const_fix
    /\ WindowUnchanged

\* lines 552-563: the values of const_fix are scaled back
ElasticNetScaleBack ==
    /\ pc = "assembled"
    /\ const_fix' = IF scale_displacement THEN ScaleFix(const_fix, TRUE) ELSE const_fix
    /\ pc' = "restored"
    /\ UNCHANGED data
    /\ WindowUnchanged

\* lines 565-: run_elastic_net_crossvalidation or run_elastic_net_optimization
\* is handed M (and M_test), and optimize_main returns
ElasticNetSolve ==
    /\ pc = "restored"
    /\ data' = [data EXCEPT !.solver_M = data.M,
                            !.solver_M_test = IF optcontrol.cross_validation_mode > 0
                                              THEN data.M_test ELSE 0]
    /\ pc' = "returned"
    /\ UNCHANGED const_fix
    /\ WindowUnchanged

NextWindow ==
    \/ SetNstart
    \/ SetNend
    \/ SetSkipS
    \/ SetSkipE
    \/ SetDisplacementAndForce
    \/ OptimizeMainEnter
    \/ LeastSquares
    \/ ElasticNetScale
    \/ ElasticNetAssemble
    \/ ElasticNetAssembleTest
    \/ ElasticNetScaleBack
    \/ ElasticNetSolve

SpecWindow == InitWindow /\ [][NextWindow]_vars

----------------------------------------------------------------------------
(* fit_with_constraints: the work vector fsum2 (allocated with M entries)
   and the solution vector x (allocated with N entries).  Every loop over
   them is kept as the set of indices it reads or writes.  least_squares
   calls it with N parameters, M rows and P = get_number_of_constraints(),
   the number of rows of the reduced constraint sets of all orders. *)

\* for (i = from; i < to; ++i)
LoopIndices(from, to) == from..(to - 1)

\* (mutant) the loop starts at P - N
ResidualStartSwapped(N, P) == P - N

\* the first index of the residual loop, for (i = N - P; i < M; ++i)
ResidualStart(N, P) == N - P

\* constraint->get_number_of_constraints()
NumberOfConstraints == SumSeq([o \in 1..maxorder |-> Len(const_symmetry[o])])

\* dgglse_ solves with P <= N <= M + P and returns INFO = 0, or 1 or 2 when a
\* factor is rank deficient; with other dimensions it returns a negative
\* INFO and leaves its arguments alone
dgglse_infos(M, N, P) ==
    IF P > N \/ N > M + P THEN {-3} ELSE {0, 1, 2}

InitConstrained ==
    /\ pc = "dense"
    /\ maxorder \in 1..MaxOrder
    /\ nequiv \in SizeVectors(maxorder, MaxFitParams)
    /\ const_symmetry \in ConstraintVectors(nequiv)
    /\ const_fix = [o \in 1..maxorder |-> FixEntries(const_symmetry[o])]
    /\ const_relate = [o \in 1..maxorder |-> RelateEntries(const_symmetry[o])]
    /\ index_bimap = [o \in 1..maxorder |->
                         FreeIndexMap(nequiv[o], FixEntries(const_symmetry[o]),
                                      RelateEntries(const_symmetry[o]))]
    /\ cmp = <<>>
    /\ \E M \in 1..(MaxFitRows + 1) :
          fit = [N |-> NTotal, M |-> M, P |-> NumberOfConstraints,
                 fsum2_size |-> 0, x_size |-> 0,
                 fsum2_written |-> {}, fsum2_read |-> {},
                 x_written |-> {}, x_read |-> {}]
    /\ gam = <<>>
    /\ use_sparseQR = <<>>
    /\ data = <<>>
    /\ param_in = <<>>
    /\ params = <<>>
    /\ amat_orig_tmp = <<>>
    /\ f_multi = 0
    /\ amat = <<>>
    /\ bvec = 0
    /\ optcontrol_in = [DefaultControl EXCEPT !.optimizer = 1]
    /\ optcontrol = optcontrol_in
    /\ INFO = 0
    /\ info_fitting = 0
    /\ l1_alpha_path = <<>>
    /\ with_sparse_solver = FALSE
    /\ constraint_algebraic = FALSE
    /\ calls = <<>>
    /\ fcs_tmp = <<>>
    /\ omp = <<>>
    /\ cd = <<>>

\* Optimize::fit_with_constraints(N, M, P, ...) as least_squares calls it
FitWithConstraints ==
    /\ pc = "dense"
    /\ \E info \in dgglse_infos(fit.M, fit.N, fit.P) :
          /\ INFO' = info
          /\ info_fitting' = info
          /\ fit' = [fit EXCEPT
                        !.fsum2_size = fit.M,
                        !.x_size = fit.N,
                        !.fsum2_written = LoopIndices(0, fit.M),
                        !.fsum2_read = (IF info >= 0 THEN LoopIndices(0, fit.M) ELSE {})
                                       \cup LoopIndices(ResidualStart(fit.N, fit.P), fit.M),
                        !.x_written = IF info >= 0 THEN LoopIndices(0, fit.N) ELSE {},
                        !.x_read = LoopIndices(0, fit.N)]
    /\ pc' = "fitted"
    /\ UNCHANGED <<cvars, param_in, params, avars, optcontrol_in, optcontrol, l1_alpha_path,
                   with_sparse_solver, constraint_algebraic, calls, fcs_tmp, gam, use_sparseQR,
                   data, cd>>

NextConstrained == FitWithConstraints

SpecConstrained == InitConstrained /\ [][NextConstrained]_vars

----------------------------------------------------------------------------
(* Properties of the classification and of the expansion *)

XVals == {-3, -1, 0, 1, 2, 3}    \* entries of a full parameter vector

FixTargets(o) == {const_fix[o][j].p_index_target : j \in DOMAIN const_fix[o]}
RelateTargets(o) == {const_relate[o][j].p_index_target : j \in DOMAIN const_relate[o]}
FreeOriginals(o) == {index_bimap[o][j].right : j \in DOMAIN index_bimap[o]}

\* how often the original index p is listed in the three tables of order o
Listed(o, p) ==
    Cardinality({j \in DOMAIN const_fix[o] : const_fix[o][j].p_index_target = p})
    + Cardinality({j \in DOMAIN index_bimap[o] : index_bimap[o][j].right = p})
    + Cardinality({j \in DOMAIN const_relate[o] : const_relate[o][j].p_index_target = p})

\* C1: for every order the FixEntry targets, the original indices of the
\* FreeIndexMap and the RelateEntry targets are pairwise disjoint and cover
\* every original index 0..n-1 of the order exactly once.
PartitionLaw ==
    pc # "setup" =>
        \A o \in Orders :
            /\ FixTargets(o) \cup FreeOriginals(o) \cup RelateTargets(o) = 0..(nequiv[o] - 1)
            /\ \A p \in 0..(nequiv[o] - 1) : Listed(o, p) = 1

PartitionWitness ==
    /\ pc = "ready"
    /\ \E o \in Orders : FixTargets(o) # {} /\ FreeOriginals(o) # {} /\ RelateTargets(o) # {}

\* number of free parameters in the orders before o (iparam of the source)
FreeShift(o) == SumSeq([i \in 1..(o - 1) |-> Len(index_bimap[i])])

\* the free index of the free original index q of order o
FreeIndexOf(o, q) ==
    index_bimap[o][CHOOSE j \in DOMAIN index_bimap[o] : index_bimap[o][j].right = q].left

FreeValue(o, q) == param_in[FreeIndexOf(o, q) + FreeShift(o)]

\* the value the expansion has to give to the original index p of order o
ExpectedValue(o, p) ==
    IF p \in FixTargets(o)
    THEN const_fix[o][CHOOSE j \in DOMAIN const_fix[o] :
                         const_fix[o][j].p_index_target = p].val_to_fix
    ELSE IF p \in FreeOriginals(o)
    THEN FreeValue(o, p)
    ELSE LET rel == const_relate[o][CHOOSE j \in DOMAIN const_relate[o] :
                                       const_relate[o][j].p_index_target = p]
         IN -SumSeq([k \in DOMAIN rel.alpha |->
                        rel.alpha[k] * FreeValue(o, rel.p_index_orig[k])])

\* all orderings of the elements of a sequence
Orderings(s) ==
    {[j \in DOMAIN s |-> s[f[j]]] :
        f \in {g \in [DOMAIN s -> DOMAIN s] : \A a, b \in DOMAIN s : g[a] = g[b] => a = b}}

RECURSIVE RelateOrderings(_)
RelateOrderings(rel) ==
    IF Len(rel) = 0 THEN {<<>>}
    ELSE LET rest == RelateOrderings(Tail(rel))
         IN UNION {{<<t>> \o v : v \in rest} : t \in Orderings(Head(rel))}

\* C2: the expansion gives val_to_fix to a fixed index, the reduced entry
\* (at the free index plus the free offset of the order) to a free index and
\* minus the alpha-weighted sum of its free sources to a dependent index;
\* every source is free, so one pass per order suffices and the result is
\* the same for every order of listing the RelateEntry items.
ExpansionValues ==
    pc = "expanded" =>
        /\ \A o \in Orders : \A j \in DOMAIN const_relate[o] :
              Range(const_relate[o][j].p_index_orig) \subseteq FreeOriginals(o)
        /\ DOMAIN params = 0..(NTotal - 1)
        /\ \A o \in Orders : \A p \in 0..(nequiv[o] - 1) :
              params[p + Shift(nequiv, o)] = ExpectedValue(o, p)
        /\ \A rel \in RelateOrderings(const_relate) :
              recover_original_forceconstants(maxorder, param_in, nequiv,
                                              const_fix, rel, index_bimap) = params

ExpansionWitness ==
    /\ pc = "expanded"
    /\ \E o \in Orders :
          /\ o > 1
          /\ Len(const_relate[o]) >= 2
          /\ Len(index_bimap[1]) >= 1

\* x satisfies every constraint of every order
SatisfiesConstraints(x) ==
    \A o \in Orders :
        /\ \A j \in DOMAIN const_fix[o] :
              x[const_fix[o][j].p_index_target + Shift(nequiv, o)] = const_fix[o][j].val_to_fix
        /\ \A j \in DOMAIN const_relate[o] :
              LET rel == const_relate[o][j]
              IN x[rel.p_index_target + Shift(nequiv, o)]
                 = -SumSeq([k \in DOMAIN rel.alpha |->
                               rel.alpha[k] * x[rel.p_index_orig[k] + Shift(nequiv, o)]])

\* the free entries of x, through the FreeIndexMap
Restrict(x) ==
    [i \in 0..(Nirred - 1) |->
        LET o == CHOOSE o \in Orders : FreeShift(o) <= i /\ i < FreeShift(o) + Len(index_bimap[o])
        IN x[index_bimap[o][i - FreeShift(o) + 1].right + Shift(nequiv, o)]]

FreePositions == UNION {{q + Shift(nequiv, o) : q \in FreeOriginals(o)} : o \in Orders}

\* the full vectors whose free entries are those of the reduced vector pin
FullVectorsOver(pin) ==
    LET free == FreePositions
        base == [i \in free |->
                    LET o == CHOOSE o \in Orders :
                                Shift(nequiv, o) <= i /\ i < Shift(nequiv, o) + nequiv[o]
                    IN pin[FreeIndexOf(o, i - Shift(nequiv, o)) + FreeShift(o)]]
    IN {base @@ y : y \in [(0..(NTotal - 1)) \ free -> XVals]}

\* C3: a full vector x that satisfies every constraint is reproduced at every
\* index by restricting it to its free entries and expanding the result.
RoundTrip ==
    pc = "expanded" =>
        \A x \in FullVectorsOver(param_in) :
            (SatisfiesConstraints(x) /\ Restrict(x) = param_in) => params = x

RoundTripWitness ==
    /\ pc = "expanded"
    /\ maxorder > 1
    /\ \E o \in Orders : const_relate[o] # <<>>
    /\ \E o \in Orders : \E j \in DOMAIN const_fix[o] : const_fix[o][j].val_to_fix # 0
    /\ \E x \in FullVectorsOver(param_in) : SatisfiesConstraints(x) /\ Restrict(x) = param_in

\* the scenario: 2 parameters, the single reduced constraint row [1,1] = 0
TwoParameterScenario ==
    /\ maxorder = 1
    /\ nequiv = <<2>>
    /\ const_symmetry = << << [elems |-> <<ConstraintDoubleElement(0, 1),
                                           ConstraintDoubleElement(1, 1)>>,
                               rhs |-> 0] >> >>

Dot(a, x) == SumSeq([j \in 1..Cardinality(DOMAIN a) |-> a[j - 1] * x[j - 1]])

\* C5: for every data row and every free-parameter vector the projected
\* residual equals the full residual at the expanded vector: the fixed
\* contributions are moved into the target, the dependent columns are folded
\* into the columns of their free sources.
ProjectedEqualsFull ==
    pc = "projected" =>
        \A x_free \in [0..(Nirred - 1) -> ParamVals] :
            LET x_full == recover_original_forceconstants(maxorder, x_free, nequiv,
                                                          const_fix, const_relate, index_bimap)
                full == FullModeRow(amat_orig_tmp, f_multi)
            IN /\ DOMAIN amat = 0..(Nirred - 1)
               /\ Dot(amat, x_free) - bvec = Dot(full.amat, x_full) - full.bvec

ProjectedWitness ==
    /\ pc = "projected"
    /\ maxorder > 1
    /\ \E o \in Orders : o > 1 /\ const_relate[o] # <<>> /\ Len(index_bimap[1]) >= 1
    /\ \E o \in Orders : \E j \in DOMAIN const_fix[o] : const_fix[o][j].val_to_fix # 0

----------------------------------------------------------------------------
(* Properties of set_optimizer_control and optimize_main *)

\* a set_optimizer_control call has ended
ControlCalled == pc \in {"fatal", "stored", "returned", "exited"}

\* the call ended in exit(): nothing is stored and nothing is computed
Rejected ==
    /\ pc = "fatal"
    /\ optcontrol = DefaultControl
    /\ params = <<>>
    /\ l1_alpha_path = <<>>

\* the call returned and the argument is the stored configuration
Stored == pc \in {"stored", "returned", "exited"} /\ optcontrol = optcontrol_in

\* the elastic-net checks do not apply to the argument, or it passes them
ElasticNetChecksPass ==
    optcontrol_in.optimizer = 2 =>
        /\ eps < optcontrol_in.l1_ratio /\ optcontrol_in.l1_ratio <= One
        /\ optcontrol_in.cross_validation_mode = 1 =>
               optcontrol_in.l1_alpha_min < optcontrol_in.l1_alpha_max

\* C6 (as stated): each of three mode values is accepted and every other
\* value is fatal.
ThreeModesAccepted ==
    ControlCalled =>
        /\ (optcontrol_in.cross_validation_mode \in {0, 1, 2} /\ optcontrol_in.optimizer = 1)
               => Stored
        /\ optcontrol_in.cross_validation_mode \notin {0, 1, 2} => Rejected

\* C6: set_optimizer_control accepts exactly the mode values 0 and 1; every
\* other value, the 2 that optimize_main tests for included, ends in exit()
\* before the configuration is stored and before anything is computed.
ModeValidation ==
    ControlCalled =>
        /\ optcontrol_in.cross_validation_mode \notin {0, 1} => Rejected
        /\ (optcontrol_in.cross_validation_mode \in {0, 1} /\ ElasticNetChecksPass) => Stored

ModeWitness ==
    /\ pc = "fatal"
    /\ optcontrol_in.cross_validation_mode = 2
    /\ optcontrol_in.optimizer = 1

InvertedBoundsRejected ==
    (ControlCalled /\ optcontrol_in.l1_alpha_min > optcontrol_in.l1_alpha_max) => Rejected

\* C8: the bounds are checked for the elastic net in mode 1 only: there
\* l1_alpha_min >= l1_alpha_max ends in exit() before the configuration is
\* stored; a least-squares or fixed-penalty configuration is stored with
\* inverted bounds; every penalty path that is run descends from l1_alpha_max
\* to a smaller l1_alpha_min.
BoundsValidation ==
    ControlCalled =>
        /\ (/\ optcontrol_in.optimizer = 2
            /\ optcontrol_in.cross_validation_mode = 1
            /\ optcontrol_in.l1_alpha_min >= optcontrol_in.l1_alpha_max) => Rejected
        /\ (/\ optcontrol_in.l1_alpha_min > optcontrol_in.l1_alpha_max
            /\ optcontrol_in.cross_validation_mode \in {0, 1}
            /\ optcontrol_in.optimizer # 2) => Stored
        /\ (/\ optcontrol_in.l1_alpha_min > optcontrol_in.l1_alpha_max
            /\ optcontrol_in.cross_validation_mode = 0
            /\ optcontrol_in.optimizer = 2
            /\ eps < optcontrol_in.l1_ratio /\ optcontrol_in.l1_ratio <= One) => Stored
        /\ l1_alpha_path # <<>> =>
               /\ l1_alpha_path = <<optcontrol.l1_alpha_max, optcontrol.l1_alpha_min>>
               /\ l1_alpha_path[1] > l1_alpha_path[2]

BoundsWitness ==
    /\ pc = "fatal"
    /\ optcontrol_in.optimizer = 2
    /\ optcontrol_in.cross_validation_mode = 1
    /\ optcontrol_in.l1_ratio = One
    /\ optcontrol_in.l1_alpha_min > optcontrol_in.l1_alpha_max

\* params is a full array in the original ordering
FullArray(x) == DOMAIN x = 0..(NTotal - 1)

\* C9 (as stated): every run without a solver failure returns 0 and leaves a
\* full parameter array in params.
EveryRunReturnsZero ==
    (pc = "returned" /\ optcontrol.optimizer \in {1, 2} /\ INFO = 0) =>
        /\ info_fitting = 0
        /\ FullArray(params)

\* C9: a least-squares run without a solver failure and a fixed-penalty
\* elastic-net run return 0 and leave in params a full array of length N in
\* the original ordering (for the elastic net: the constraint-satisfying
\* expansion of the solution); a run over the penalty grid returns 1 and
\* leaves params as it was.
RunStatus ==
    pc = "returned" =>
        /\ (optcontrol.optimizer = 1 /\ INFO = 0) =>
               /\ info_fitting = 0
               /\ FullArray(params)
        /\ (optcontrol.optimizer = 1 /\ INFO # 0) =>
               /\ info_fitting = INFO
               /\ params = <<>>
        /\ (optcontrol.optimizer = 2 /\ optcontrol.cross_validation_mode = 0) =>
               /\ info_fitting = 0
               /\ FullArray(params)
               /\ SatisfiesConstraints(params)
               /\ Restrict(params) = param_in
        /\ (optcontrol.optimizer = 2 /\ optcontrol.cross_validation_mode = 1) =>
               /\ info_fitting = 1
               /\ params = <<>>

RunWitness ==
    /\ pc = "returned"
    /\ optcontrol.optimizer = 2
    /\ optcontrol.cross_validation_mode = 1
    /\ info_fitting = 1
    /\ \E o \in Orders : const_relate[o] # <<>>

----------------------------------------------------------------------------
(* Properties of coordinate_descent *)

\* a solve has returned to its caller
Returned == pc = "idle" /\ cd.nsolve > 0

\* C10 (as stated): coordinate_descent always returns normally, after at most
\* maxnum_iteration sweeps, with the current coefficients written to x.
AlwaysReturnsNormally ==
    /\ pc # "aborted"
    /\ pc \in CDPositions => cd.iloop <= optcontrol.maxnum_iteration
    /\ Returned => (cd.x = cd.beta /\ cd.iloop <= optcontrol.maxnum_iteration)

\* with a nonzero output_frequency the solve does return within the cap
ReturnsWithinCap ==
    optcontrol.output_frequency # 0 =>
        /\ pc # "aborted"
        /\ pc \in CDPositions => cd.iloop <= optcontrol.maxnum_iteration
        /\ Returned => (cd.x = cd.beta /\ cd.iloop <= optcontrol.maxnum_iteration)

\* the run ended at the head of the first sweep
AbortedWitness ==
    /\ pc = "aborted"
    /\ optcontrol.output_frequency = 0
    /\ optcontrol.maxnum_iteration >= 1

\* the cap was reached without convergence and the solve returned
CapReachedWitness ==
    /\ Returned
    /\ optcontrol.maxnum_iteration >= 1
    /\ cd.iloop = optcontrol.maxnum_iteration
    /\ ~Converged(cd.delta, cd.N)
    /\ cd.x = cd.beta

\* C11 (as stated): the solve stops at the first sweep that meets the
\* criterion, and with logging on the not-converged warning is printed exactly
\* when no sweep met it.
WarningIffNotConverged ==
    /\ (pc \in {"while", "for"} /\ cd.iloop > 0) => ~cd.met
    /\ (Returned /\ cd.verbosity > 0) => (cd.report = "not_achieved" <=> ~cd.met)

\* the criterion was met on the last allowed sweep and the warning was printed
LastSweepWitness ==
    /\ Returned
    /\ cd.verbosity > 0
    /\ cd.met
    /\ cd.iloop = optcontrol.maxnum_iteration
    /\ cd.report = "not_achieved"

\* what the code does print: the warning goes with iloop >= maxnum_iteration
WarningAtCap ==
    /\ (pc \in {"while", "for"} /\ cd.iloop > 0) => ~cd.met
    /\ (Returned /\ cd.verbosity > 0) =>
           (cd.report = "not_achieved" <=>
                (~cd.met \/ cd.iloop = optcontrol.maxnum_iteration))

\* a step that starts a solve of the penalty loop
StartsSolve == pc = "idle" /\ pc' = "while"

\* C12 (as stated): the penalties are solved in strictly decreasing order; the
\* first solve starts from all-zero coefficients with gradient A^T b, every
\* later solve from exactly the coefficients and the gradient the preceding
\* solve left.
DecreasingWarmPath ==
    [][StartsSolve =>
          IF cd.nsolve = 0
          THEN /\ cd'.beta = [j \in 0..(cd.N - 1) |-> RZero]
               /\ cd'.grad = Grad0(cd.A, cd.b)
          ELSE /\ RLess(cd'.alpha, cd.alpha)
               /\ cd'.beta = cd.x
               /\ cd'.grad = cd.grad]_vars

\* the start states alone, without the order of the penalties
WarmPath ==
    [][StartsSolve =>
          IF cd.nsolve = 0
          THEN /\ cd'.beta = [j \in 0..(cd.N - 1) |-> RZero]
               /\ cd'.grad = Grad0(cd.A, cd.b)
          ELSE /\ (optcontrol.l1_alpha_min > 0 /\ optcontrol.num_l1_alpha > 0
                      => RLess(cd'.alpha, cd.alpha))
               /\ cd'.beta = cd.x
               /\ cd'.grad = cd.grad]_vars

\* a later solve of a path with l1_alpha_min = 0 runs with a NaN penalty
NaNPenaltyWitness ==
    /\ pc = "while"
    /\ cd.nsolve > 0
    /\ optcontrol.l1_alpha_min = 0
    /\ IsNaN(cd.alpha)

\* a warm start from a nonzero coefficient vector
WarmStartWitness ==
    /\ pc = "while"
    /\ cd.iloop = 0
    /\ cd.nsolve > 0
    /\ \E j \in 0..(cd.N - 1) : cd.x[j] # RZero /\ ~IsNaN(cd.x[j])

\* the first, cold-start solve of a run, in progress or just returned, with
\* alpha * l1_ratio >= max_i |A_i . b| / M
ColdLargePenalty ==
    /\ cd.warm_start = 0
    /\ pc \in CDPositions \/ (pc = "idle" /\ cd.nsolve = 1)
    /\ ~IsNaN(alphlambda)
    /\ ~RLess(alphlambda, get_esimated_max_alpha(cd.A, cd.M, cd.b))

AllZero(v) == \A j \in DOMAIN v : v[j] = RZero

\* C13 (as stated): a cold-start solve with alpha * l1_ratio >= max_i |A_i . b| / M
\* leaves every coefficient at exactly 0 and stops after its first sweep.
ZeroAfterFirstSweep ==
    ColdLargePenalty =>
        /\ AllZero(cd.beta)
        /\ Returned => (AllZero(cd.x) /\ cd.iloop = 1)

\* C13 (amended): such a solve keeps every coefficient at exactly 0; when it
\* returns it has made one sweep if tolerance_iteration > 0 and the cap is at
\* least 1, no sweep if the cap is 0, and as many sweeps as the cap allows if
\* tolerance_iteration is 0.
ZeroSolution ==
    ColdLargePenalty =>
        /\ AllZero(cd.beta)
        /\ Returned =>
              /\ AllZero(cd.x)
              /\ cd.iloop = IF optcontrol.maxnum_iteration = 0 THEN 0
                            ELSE IF optcontrol.tolerance_iteration > 0 THEN 1
                            ELSE optcontrol.maxnum_iteration

\* a cold solve over a nonzero A^T b returned all zeros after one sweep
ZeroSolutionWitness ==
    /\ ColdLargePenalty
    /\ Returned
    /\ get_esimated_max_alpha(cd.A, cd.M, cd.b) # RZero
    /\ AllZero(cd.x)
    /\ cd.iloop = 1

\* the same with tolerance_iteration = 0: the solve went on to the cap
ZeroToCapWitness ==
    /\ ColdLargePenalty
    /\ Returned
    /\ optcontrol.tolerance_iteration = 0
    /\ AllZero(cd.x)
    /\ cd.iloop = optcontrol.maxnum_iteration
    /\ cd.iloop > 1

\* a least-squares run of optimize_main took the sparse path and the
\* factorization failed
SparseFailed ==
    /\ pc = "returned"
    /\ optcontrol.optimizer = 1
    /\ optcontrol.use_sparse_solver # 0
    /\ with_sparse_solver
    /\ constraint_algebraic
    /\ INFO # 0

\* C14: when the sparse factorization fails, run_eigen_sparseQR returns a
\* nonzero status, leaves the caller's parameter vector as it was, no other
\* solver is tried, and optimize_main returns that status (and stores nothing).
SparseFailure ==
    SparseFailed =>
        /\ info_fitting = 1
        /\ fcs_tmp = Zeros(NTotal)
        /\ calls = <<"get_matrix_elements_in_sparse_form", "run_eigen_sparseQR">>
        /\ params = <<>>

\* a failed factorization of a system with free parameters
SparseFailureWitness ==
    /\ SparseFailed
    /\ Nirred > 0
    /\ info_fitting = 1
    /\ fcs_tmp = Zeros(NTotal)

\* a least-squares run of optimize_main with the sparse solver requested in a
\* build without it has ended
SparseUnavailable ==
    /\ pc \in {"returned", "exited"}
    /\ optcontrol.optimizer = 1
    /\ optcontrol.use_sparse_solver # 0
    /\ ~with_sparse_solver

\* the run ended in exit() before anything was assembled, solved or stored
NothingComputed ==
    /\ pc = "exited"
    /\ calls = <<>>
    /\ fcs_tmp = <<>>
    /\ params = <<>>
    /\ info_fitting = 0

DenseInsteadWitness ==
    /\ SparseUnavailable
    /\ ~constraint_algebraic
    /\ pc = "returned"
    /\ info_fitting = 0
    /\ params = fcs_tmp
    /\ NTotal > 0

\* the rows that wrote an element are all one row
OneWriter(by) == \A a, b \in DOMAIN by : by[a] = by[b]

\* what a run of the loop in the order irow = 0, 1, ... leaves in the buffers
SerialAmat ==
    [k \in DOMAIN omp.amat |->
        LET c == CHOOSE c \in (0..(omp.ncycle - 1)) \X (0..(natmin3 - 1)) \X (0..(omp.ncols - 1)) :
                     AmatOffset(c[1], c[2], c[3]) = k
        IN MatrixElement(c[1], c[2], c[3])]

SerialBvec ==
    [k \in DOMAIN omp.bvec |->
        LET c == CHOOSE c \in (0..(omp.ncycle - 1)) \X (0..(omp.natmin - 1)) \X (0..2) :
                     BvecOffset(c[1], c[2], c[3]) = k
        IN ForceElement(c[1], c[2], c[3])
           - (IF constraint_algebraic THEN FixShift(c[1], 3 * c[2] + c[3]) ELSE 0)]

\* C16: in the dense assemblers the offsets written for different irow are
\* disjoint and inside the buffers, every element of amat (and of bvec) is
\* written by exactly one work item, and the buffers after the region are the
\* same under every interleaving of the threads.
DisjointDenseWrites ==
    /\ omp.outside = {}
    /\ \A k \in DOMAIN omp.amat : Len(omp.amat_by[k]) <= 1
    /\ \A k \in DOMAIN omp.bvec : OneWriter(omp.bvec_by[k])
    /\ pc = "assembled" =>
          /\ \A k \in DOMAIN omp.amat : Len(omp.amat_by[k]) = 1
          /\ \A k \in DOMAIN omp.bvec : omp.bvec_by[k] # <<>>
          /\ omp.amat = SerialAmat
          /\ omp.bvec = SerialBvec

\* two threads each assembled rows of a region with several rows and columns
DenseWitness ==
    /\ pc = "assembled"
    /\ omp.ncols > 1
    /\ \E t, u \in Threads : t # u /\ omp.took[t] # {} /\ omp.took[u] # {}

\* the projected entries above the threshold, as triplets
ExpectedTriplets ==
    {<<natmin3 * irow + i, j, SparseElement(irow, i, j)>> :
        irow \in 0..(omp.ncycle - 1), i \in 0..(natmin3 - 1), j \in 0..(omp.ncols - 1)}
    \ {<<natmin3 * irow + i, j, v>> :
        irow \in 0..(omp.ncycle - 1), i \in 0..(natmin3 - 1), j \in 0..(omp.ncols - 1),
        v \in {0, eps, -eps}}

\* the triplets of the rows thread t has had
TripletsOf(t) == {tr \in ExpectedTriplets : (tr[1] \div natmin3) \in omp.took[t]}

Elements(seq) == {seq[n] : n \in DOMAIN seq}

\* C17: in the sparse-projected mode a thread copies its private triplets to
\* the shared list only inside the critical section, once, after all its rows;
\* the final list has exactly one triplet per projected entry above the
\* threshold.
TripletsMergedOnce ==
    /\ \A t \in Threads :
          /\ omp.entered[t] <= 1
          /\ omp.th[t].pc = "critical" => (omp.critical = t /\ omp.todo = {})
          /\ omp.th[t].pc \in {"for", "barrier"} =>
                 (omp.entered[t] = 0 /\ Elements(omp.nonzero_entries) \cap TripletsOf(t) = {})
          /\ omp.th[t].pc = "critical" =>
                 Elements(omp.nonzero_entries) \cap TripletsOf(t)
                     = Elements(SubSeq(omp.nonzero_omp[t], 1, omp.th[t].k))
          /\ omp.th[t].pc = "done" =>
                 (omp.entered[t] = 1 /\ TripletsOf(t) \subseteq Elements(omp.nonzero_entries))
    /\ \A t, u \in Threads :
          (omp.th[t].pc = "critical" /\ omp.th[u].pc = "critical") => t = u
    /\ pc = "assembled" =>
          /\ Elements(omp.nonzero_entries) = ExpectedTriplets
          /\ Len(omp.nonzero_entries) = Cardinality(ExpectedTriplets)

\* two threads each merged triplets of their rows, and entries at or below
\* the threshold were left out
SparseWitness ==
    /\ pc = "assembled"
    /\ \E t, u \in Threads : t # u /\ TripletsOf(t) # {} /\ TripletsOf(u) # {}
    /\ Len(omp.nonzero_entries) < omp.ncycle * natmin3 * omp.ncols
    /\ Len(omp.nonzero_entries) > 2

\* C18 (as stated): the logged sums are accumulated in one fixed order, the
\* same in every execution whatever the number of threads and the scheduling:
\* the L1 norm and fnorm are the sums of their terms in the order of the loop.
FixedOrderSums ==
    pc = "logged" =>
        /\ omp.tmp = SerialSum(omp.beta, omp.N)
        /\ omp.fnorm = SerialSum(omp.bvec_orig, omp.N)

\* what holds: the serial loop is in loop order, and so is the reduction when
\* the team has one thread
SerialOrderSums ==
    pc = "logged" =>
        /\ omp.fnorm = SerialSum(omp.bvec_orig, omp.N)
        /\ omp.nthreads = 1 => omp.tmp = SerialSum(omp.beta, omp.N)

\* a team of two threads logged an L1 norm that differs from the one of the
\* loop run in order, while fnorm over the same terms is the in-order sum
ReorderedSumWitness ==
    /\ pc = "logged"
    /\ omp.nthreads = 2
    /\ omp.tmp # SerialSum(omp.beta, omp.N)
    /\ omp.fnorm = SerialSum(omp.bvec_orig, omp.N)

\* neither row precedes the other
Incomparable(a, b) == ~cmp.less[a][b] /\ ~cmp.less[b][a]

\* C19 (as stated): operator< on rows is irreflexive and transitive, its
\* incomparability is transitive, and of two rows that are not equal under
\* operator== exactly one precedes the other.
RowOrderTotal ==
    pc = "compared" =>
        \A a, b, c \in 1..3 :
            /\ ~cmp.less[a][a]
            /\ (cmp.less[a][b] /\ cmp.less[b][c]) => cmp.less[a][c]
            /\ (Incomparable(a, b) /\ Incomparable(b, c)) => Incomparable(a, c)
            /\ ~cmp.equal[a][b] => (cmp.less[a][b] # cmp.less[b][a])

\* what holds: operator< is irreflexive, asymmetric and transitive, and of
\* two rows of the same length that are not equal exactly one precedes
RowOrderPartial ==
    pc = "compared" =>
        \A a, b, c \in 1..3 :
            /\ ~cmp.less[a][a]
            /\ ~(cmp.less[a][b] /\ cmp.less[b][a])
            /\ (cmp.less[a][b] /\ cmp.less[b][c]) => cmp.less[a][c]
            /\ (~cmp.equal[a][b] /\ Len(cmp.obj[a]) = Len(cmp.obj[b]))
                   => (cmp.less[a][b] # cmp.less[b][a])

\* a row and a longer row that starts with it: not equal, neither precedes
PrefixRowsWitness ==
    /\ pc = "compared"
    /\ Len(cmp.obj[1]) < Len(cmp.obj[2])
    /\ SubSeq(cmp.obj[2], 1, Len(cmp.obj[1])) = cmp.obj[1]
    /\ ~cmp.equal[1][2]
    /\ Incomparable(1, 2)

\* incomparability is not transitive: rows 2 and 3 both start with row 1 and
\* one of them precedes the other
IncomparabilityWitness ==
    /\ pc = "compared"
    /\ Incomparable(1, 2)
    /\ Incomparable(1, 3)
    /\ cmp.less[2][3]

\* entry (j, i) of A^T A for the matrix of the solves
AtA(j, i) == SumSeq([k \in 1..cd.M |-> cd.A[j][k] * cd.A[i][k]])

\* a cached column is the column of A^T A, and a coordinate whose column is
\* not cached has not moved from its initial value 0 in any solve so far
GramColumnsCached ==
    \A i \in 0..(cd.N - 1) :
        IF cd.has_prod[i]
        THEN \A j \in 0..(cd.N - 1) : cd.Prod[i][j] = AtA(j, i)
        ELSE cd.beta[i] = RZero /\ cd.x[i] = RZero

\* a step caches column i only when it changes coordinate i, and leaves a
\* cached column and its flag as they are
GramColumnOnce ==
    \A i \in 0..(cd.N - 1) :
        /\ cd.has_prod[i] => (cd'.has_prod[i] /\ cd'.Prod[i] = cd.Prod[i])
        /\ (~cd.has_prod[i] /\ cd'.has_prod[i]) =>
               (pc = "for" /\ cd.i = i /\ cd'.beta[i] # cd.beta[i])
        /\ ~cd'.has_prod[i] => cd'.Prod[i] = cd.Prod[i]

\* C20: column i of Prod is computed only at the first change of coordinate
\* i and at most once over the solves of a path (has_prod[i] never goes back
\* to false), and whenever has_prod[i] is true Prod(:, i) is column i of
\* A^T A for the matrix being solved.
GramCache == [][GramColumnOnce]_vars /\ []GramColumnsCached

\* in the second solve of a path coordinate 0, whose column the first solve
\* cached, moves again while coordinate 1 has not moved yet
GramCacheWitness ==
    /\ cd.nsolve = 1
    /\ pc = "for"
    /\ cd.warm_start = 1
    /\ cd.N = 2
    /\ cd.has_prod[0]
    /\ ~cd.has_prod[1]
    /\ cd.A[0] # cd.A[1]
    /\ cd.i = 1
    /\ cd.x[0] # RZero
    /\ cd.delta[0] # RZero

\* the minimizer over beta_i of the elastic-net objective with the other
\* coordinates fixed: soft_threshold(z_i, alpha * l1_ratio) /
\* (a_i + alpha * (1 - l1_ratio)), z_i = grad_i / M + a_i * beta_i
ElasticNetMinimizer(i) ==
    LET a_i == Rat(ColDot(cd.A[i], cd.A[i]), cd.M)
        z_i == RAdd(RMul(Minv, cd.grad[i]), RMul(a_i, cd.beta[i]))
    IN RDiv(shrink(z_i, alphlambda),
            RAdd(a_i, RMul(cd.alpha, RSub(FromInt(1), Real(optcontrol.l1_ratio)))))

\* C21 (as stated): in both preprocessing modes every coordinate update sets
\* beta_i to the exact coordinate minimizer of the elastic-net objective.
ExactCoordinateUpdate ==
    [][(pc = "for" /\ cd.i < cd.N) => cd'.beta[cd.i] = ElasticNetMinimizer(cd.i)]_vars

\* what holds: with l1_ratio = 1 (no L2 part) the update is the minimizer
LassoCoordinateUpdate ==
    [][(pc = "for" /\ cd.i < cd.N /\ optcontrol.l1_ratio = One)
           => cd'.beta[cd.i] = ElasticNetMinimizer(cd.i)]_vars

\* the first update of a cold standardized solve with l1_ratio < 1 has set
\* beta_0 to the soft-thresholded value without the division by
\* 1 + alpha * (1 - l1_ratio)
UnscaledUpdateWitness ==
    /\ pc = "for"
    /\ cd.nsolve = 0
    /\ cd.iloop = 0
    /\ cd.i = 1
    /\ optcontrol.standardize # 0
    /\ optcontrol.l1_ratio < One
    /\ cd.beta[0] # RZero
    /\ cd.beta[0] = shrink(RMul(Minv, Grad0(cd.A, cd.b)[0]), alphlambda)
    /\ cd.beta[0] # RDiv(shrink(RMul(Minv, Grad0(cd.A, cd.b)[0]), alphlambda),
                         RAdd(FromInt(1), RMul(cd.alpha,
                                               RSub(FromInt(1), Real(optcontrol.l1_ratio)))))

\* both routines have returned with INFO = 0
BothSolved ==
    /\ fit.called = {"fit_without_constraints", "fit_algebraic_constraints"}
    /\ fit.info = 0

\* C22 (as stated): for every M and N, M < N included, the reduced solution
\* fit_algebraic_constraints expands is the N-entry vector
\* fit_without_constraints returns for the same matrix and target, and it is
\* expanded with recover_original_forceconstants.
SameReducedSolution ==
    BothSolved =>
        /\ fit.param_irred = fit.without
        /\ fit.param_out = recover_original_forceconstants(maxorder, fit.without, nequiv,
                                                           const_fix, const_relate, index_bimap)

\* what holds: the two agree when M >= N, and for M < N in the first M
\* entries; the expansion is applied to param_irred
SameSolutionUpToRows ==
    BothSolved =>
        /\ \A i \in 0..(fit.N - 1) :
               fit.param_irred[i] = IF i < MinOf(fit.M, fit.N) THEN fit.without[i] ELSE 0
        /\ fit.param_out = recover_original_forceconstants(maxorder, fit.param_irred, nequiv,
                                                           const_fix, const_relate, index_bimap)

\* an underdetermined solve (M < N) whose minimum-norm solution is nonzero
\* beyond entry M - 1: fit_algebraic_constraints has dropped that entry
TruncatedSolutionWitness ==
    /\ BothSolved
    /\ fit.M < fit.N
    /\ \E i \in fit.M..(fit.N - 1) : fit.without[i] # 0 /\ fit.param_irred[i] = 0

\* d divided by m!, or 0 when m! does not divide d
RECURSIVE DividedByFactorial(_, _)
DividedByFactorial(d, m) ==
    IF m <= 1 THEN d
    ELSE IF d < 1 \/ d % m # 0 THEN 0
    ELSE DividedByFactorial(d \div m, m - 1)

Multiplicity(arr, v) == Cardinality({j \in DOMAIN arr : arr[j] = v})

RECURSIVE DividedByFactorials(_, _, _)
DividedByFactorials(d, arr, values) ==
    IF values = {} THEN d
    ELSE LET v == CHOOSE w \in values : TRUE
         IN DividedByFactorials(DividedByFactorial(d, Multiplicity(arr, v)), arr, values \ {v})

\* d is the product over the distinct values of arr of multiplicity!
IsFactorialProduct(d, arr) ==
    DividedByFactorials(d, arr, {arr[j] : j \in DOMAIN arr}) = 1

\* arr with the entries at positions j and j + 1 exchanged
Exchanged(arr, j) ==
    [q \in DOMAIN arr |-> IF q = j THEN arr[j + 1] ELSE IF q = j + 1 THEN arr[j] ELSE arr[q]]

\* the value returned is the count of positions equal to arr[0] over the
\* product of the factorials of the multiplicities; it is 1 for distinct
\* entries; exchanging two neighbours of arr[1..n-1] (these exchanges
\* generate the permutations) does not change it; factorial is called with
\* arguments >= 1 only
GammaValue ==
    /\ gam.nsame_to_front = Multiplicity(gam.arr, gam.arr[0])
    /\ IsFactorialProduct(gam.denom, gam.arr)
    /\ gam.result = Rat(gam.nsame_to_front, gam.denom)
    /\ (\A j, q \in DOMAIN gam.arr : j # q => gam.arr[j] # gam.arr[q]) => gam.result = FromInt(1)
    /\ \A j \in 1..(gam.n - 2) :
           LET g == gamma(gam.n, Exchanged(gam.arr, j))
           IN Rat(g.nsame_to_front, g.denom) = gam.result
    /\ \A k \in DOMAIN gam.args : gam.args[k] >= 1

\* C23 (as stated): for every index tuple of length n >= 1 gamma returns
\* (number of positions equal to arr[0]) / (product of the factorials of the
\* multiplicities), 1 for distinct entries, unchanged by permutations of
\* arr[1..n-1], and factorial is called with arguments >= 1 and terminates.
GammaFormula ==
    /\ pc # "aborted"
    /\ pc = "returned" => GammaValue

\* what holds: the same for the tuples whose factorials and their product
\* stay in the range of int, and the arguments of factorial are always >= 1
GammaWithinInt ==
    /\ (pc = "returned" /\ ~gam.ub) => GammaValue
    /\ pc # "tuple" => (gam.args # <<>> /\ \A k \in DOMAIN gam.args : gam.args[k] >= 1)
    /\ (pc # "tuple" /\ gam.ub) => \E k \in DOMAIN gam.args : gam.args[k] >= 13

\* thirteen equal indices: factorial(13) has overflowed and gamma has
\* returned a value built from the low 32 bits
GammaOverflowWitness ==
    /\ pc = "returned"
    /\ gam.n = 13
    /\ \A j \in DOMAIN gam.arr : gam.arr[j] = gam.arr[0]
    /\ gam.ub
    /\ gam.nsame_to_front = 13
    /\ gam.denom = 1932053504

\* a tuple with a repeated index that is not the first one: the factor is
\* below 1 and the count of the front index is 1
GammaRepeatWitness ==
    /\ pc = "returned"
    /\ gam.n = 3
    /\ gam.arr[1] = gam.arr[2]
    /\ gam.arr[0] # gam.arr[1]
    /\ gam.result = Rat(1, 2)

\* the penalties written to the summary file form a geometric sequence from
\* l1_alpha_max down to l1_alpha_min, one per grid point
GeometricGrid ==
    LET lo == Real(optcontrol.l1_alpha_min)
        hi == Real(optcontrol.l1_alpha_max)
        n == Len(l1_alpha_path)
    IN /\ n = optcontrol.num_l1_alpha + 1
       /\ \A k \in 1..n : ~IsNaN(l1_alpha_path[k])
       /\ l1_alpha_path[1] = hi
       /\ l1_alpha_path[n] = lo
       /\ \A k \in 1..n : ~RLess(l1_alpha_path[k], lo) /\ ~RLess(hi, l1_alpha_path[k])
       /\ \A k \in 1..(n - 2) :
              RMul(l1_alpha_path[k + 1], l1_alpha_path[k + 1])
                  = RMul(l1_alpha_path[k], l1_alpha_path[k + 2])

\* C24 (as stated): for every accepted configuration with the penalty grid
\* enabled the penalties are a well-defined geometric sequence from
\* l1_alpha_max to l1_alpha_min within these bounds, and one summary record
\* is written per grid point.
WellDefinedGrid == pc = "returned" => GeometricGrid

\* what holds: the same for l1_alpha_min > 0 and num_l1_alpha >= 1
PositiveGrid ==
    (pc = "returned" /\ optcontrol.l1_alpha_min > 0 /\ optcontrol.num_l1_alpha >= 1)
        => GeometricGrid

\* num_l1_alpha = 0 is accepted: the one penalty of the run is 0 / 0 in the
\* exponent, not l1_alpha_max
EmptyGridWitness ==
    /\ pc = "returned"
    /\ optcontrol.num_l1_alpha = 0
    /\ optcontrol.l1_alpha_min > 0
    /\ Len(l1_alpha_path) = 1
    /\ IsNaN(l1_alpha_path[1])

\* a grid of three points: max, the geometric mean, min
ThreePointGridWitness ==
    /\ pc = "returned"
    /\ optcontrol.num_l1_alpha = 2
    /\ l1_alpha_path = <<Real(4 * One), Real(2 * One), Real(One)>>

\* entry j of A^T b - (A^T A) beta
ResidualGradient(j) ==
    RSub(FromInt(ColDot(cd.A[j], cd.b)),
         RSum([k \in 1..cd.N |-> RMul(FromInt(AtA(j, k - 1)), cd.beta[k - 1])]))

\* C25: after every single-coordinate update of coordinate_descent the
\* maintained gradient is A^T b - (A^T A) beta for the current beta, from a
\* cold start and from a warm start with the x and grad of the previous
\* grid point.
GradientMaintained ==
    pc \in {"while", "for", "after"} =>
        \A j \in 0..(cd.N - 1) : cd.grad[j] = ResidualGradient(j)

\* in a warm-started solve an update has moved a coordinate away from a
\* nonzero value the previous solve left
WarmGradientWitness ==
    /\ pc = "for"
    /\ cd.nsolve = 1
    /\ cd.warm_start = 1
    /\ cd.i = 1
    /\ cd.x[0] # RZero
    /\ cd.beta[0] # cd.x[0]
    /\ cd.grad[0] = ResidualGradient(0)
    /\ cd.grad[0] # Grad0(cd.A, cd.b)[0]

\* a run of an entry point returns to its caller
EntryReturns == pc = "stored" /\ pc' \in {"returned", "fitted"}

\* C26 (as stated): a solve that ends with a nonzero status leaves the
\* stored params array as it was, and params is replaced by the new solution
\* only when the status is 0, in optimize_main and in fitmain.
ParamsKeptOnFailure ==
    [][EntryReturns =>
          IF info_fitting' # 0 THEN params' = params ELSE params' = fcs_tmp']_vars

\* what holds: optimize_main alone behaves so
OptimizeMainKeepsParams ==
    [][(pc = "stored" /\ pc' = "returned") =>
          IF info_fitting' # 0 THEN params' = params ELSE params' = fcs_tmp']_vars

\* fitmain has returned a nonzero status and params is the vector of the
\* failed solve, not the array that was stored before
FitMainOverwriteWitness ==
    /\ pc = "fitted"
    /\ info_fitting # 0
    /\ params = fcs_tmp
    /\ params # StoredParams
    /\ params # <<>>

\* optimize_main has returned a nonzero status and the stored array is there
OptimizeMainKeepWitness ==
    /\ pc = "returned"
    /\ info_fitting # 0
    /\ optcontrol.optimizer = 1
    /\ params = StoredParams
    /\ fcs_tmp # StoredParams

----------------------------------------------------------------------------
(* Properties of the data window *)

\* C27 (as stated): in every call of optimize_main, after any sequence of
\* set_nstart, set_nend, set_skip_s, set_skip_e and set_displacement_and_force
\* calls, the row count M handed to the solvers equals the number of rows of
\* the design matrix and target vector that were allocated and assembled,
\* 3 * natmin * ndata_used * ntran for the stored number of data sets.
RowCountHanded ==
    pc = "returned" => data.solver_M = data.nrows

\* what holds: M is the row count of the window nstart..nend less the skipped
\* range, and the matrix has the row count of the data sets stored at entry
RowCountOfWindow ==
    pc = "returned" =>
        /\ data.solver_M = RowCount(data, data.ndata_used_main)
        /\ data.nrows # data.solver_M =>
               \/ optcontrol.optimizer = 1 /\ data.ndata_used # data.ndata_used_main
               \/ optcontrol.optimizer = 2

\* two data sets were stored through the API, the window was then set to one
\* data set, and the least-squares solver was handed 3 rows per translation
\* of a matrix assembled with 6
RowCountMismatchWitness ==
    /\ pc = "returned"
    /\ optcontrol.optimizer = 1
    /\ data.ndata_used = 2
    /\ data.ndata_used_main = 1
    /\ data.nrows = 2 * data.solver_M
    /\ data.solver_M > 0

\* C28 (as stated): after optimize_main returns from an elastic-net run, with
\* or without hold-out validation, the stored data window is still the
\* training set: get_ndata_used() is the number of training data sets and
\* u_in and f_in hold the training displacements and forces.
TrainingSetStored ==
    (pc = "returned" /\ optcontrol.optimizer = 2) =>
        /\ data.ndata_used = data.ndata_used_main
        /\ Len(data.u_in) = data.ndata_used_main
        /\ Len(data.f_in) = data.ndata_used_main
        /\ \A i \in 1..data.ndata_used_main :
              /\ data.u_in[i].set = "training" /\ data.u_in[i].index = i
              /\ data.f_in[i].set = "training" /\ data.f_in[i].index = i

\* what holds: without a validation set, and with as many data sets stored at
\* entry as the window holds, the training set is what is left
TrainingSetStoredWithoutValidation ==
    (/\ pc = "returned"
     /\ optcontrol.optimizer = 2
     /\ optcontrol.cross_validation_mode = 0
     /\ data.nrows = data.solver_M) =>
        /\ data.ndata_used = data.ndata_used_main
        /\ \A i \in 1..data.ndata_used_main :
              /\ data.u_in[i].set = "training" /\ data.u_in[i].index = i
              /\ data.f_in[i].set = "training" /\ data.f_in[i].index = i

\* a run with a validation set has returned: two training sets were read and
\* assembled, and the object holds the single test set
TestSetStoredWitness ==
    /\ pc = "returned"
    /\ optcontrol.optimizer = 2
    /\ optcontrol.cross_validation_mode = 1
    /\ data.nrows = data.solver_M
    /\ data.ndata_used_main = 2
    /\ data.ndata_used = 1
    /\ data.u_in = DataRows("test", 1)
    /\ data.f_in = DataRows("test", 1)

\* elastic_net is past the scaling back of const_fix
PastScaleBack == pc \in {"restored", "returned"} /\ optcontrol.optimizer = 2

\* C29 (as stated): elastic_net leaves the constraint data of its caller as
\* it was: every val_to_fix it rescales by displacement_scaling_factor^(order+1)
\* is back at its original value before the solve, with or without the
\* validation set, and the FixEntry, RelateEntry and FreeIndexMap entries are
\* never modified.
FixValuesRestored ==
    PastScaleBack =>
        /\ const_fix = data.const_fix_in
        /\ const_relate = data.const_relate_in
        /\ index_bimap = data.index_bimap_in

\* what holds: no entry is added, removed or moved, on any path
FixEntriesKept ==
    pc \in {"scaled", "validation", "assembled", "restored", "returned"} =>
        /\ const_relate = data.const_relate_in
        /\ index_bimap = data.index_bimap_in
        /\ DOMAIN const_fix = DOMAIN data.const_fix_in
        /\ \A o \in DOMAIN const_fix :
              /\ DOMAIN const_fix[o] = DOMAIN data.const_fix_in[o]
              /\ \A j \in DOMAIN const_fix[o] :
                    const_fix[o][j].p_index_target = data.const_fix_in[o][j].p_index_target

\* a parameter was pinned to 3, the run scaled by 3 and scaled back, and the
\* caller finds another value
FixValueChangedWitness ==
    /\ pc = "returned"
    /\ optcontrol.optimizer = 2
    /\ scale_displacement
    /\ \E j \in DOMAIN const_fix[1] :
          /\ data.const_fix_in[1][j].val_to_fix = FromInt(3)
          /\ const_fix[1][j].val_to_fix # FromInt(3)

\* a value that the rounding leaves alone is back after the run
FixValueRestoredWitness ==
    /\ pc = "returned"
    /\ optcontrol.optimizer = 2
    /\ scale_displacement
    /\ \E j \in DOMAIN const_fix[1] :
          /\ data.const_fix_in[1][j].val_to_fix = FromInt(1)
          /\ const_fix[1][j].val_to_fix = FromInt(1)

----------------------------------------------------------------------------
(* Properties of the buffers of fit_with_constraints *)

FullyConstrainedWitness ==
    /\ pc = "fitted"
    /\ fit.P = fit.N
    /\ 0 \in fit.fsum2_read

====
